---- MODULE Spec2Model ----
(***************************************************************************)
(* PTZOptics/Code-Examples: the VISCA-over-IP preset capture and restore   *)
(* clients (VISCA API/python/save_camera_presets.py and                    *)
(* restore_camera_presets.py), their controller class and its wire codec,  *)
(* the timer-driven examples using-VISCA.py and using-HTTP.py, and the     *)
(* frame loop of Motion Detection/main.py.                                 *)
(*                                                                         *)
(* Specifications, sharing the link and the codec operators:               *)
(*   Spec         one capture run of save_camera_presets.main over a TCP   *)
(*                link whose replies may be late or missing;               *)
(*   SpecCodec    the pure encode/decode functions applied to drawn inputs;*)
(*   SpecRestore  restore_camera_presets.main run twice over one table;    *)
(*   SpecLink     the controller's methods called in any order, the peer   *)
(*                free to reset the connection;                            *)
(*   SpecRuns     a run of either script;                                  *)
(*   SpecVisca    using-VISCA.py: the main thread, the timer thread that   *)
(*                start() creates and a thread calling                     *)
(*                send_single_command, interleaved line by line;           *)
(*   SpecTimers   the command timers of using-VISCA.py and using-HTTP.py;  *)
(*   SpecMotion   the per-frame smoothing and face persistence of          *)
(*                Motion Detection/main.py;                                *)
(*   SpecScan     capture runs over the ranges that end at preset 152;     *)
(*   SpecRestoreLossy  SpecRestore with a peer that may reset the link;    *)
(*   SpecInterrupt     runs of either script with a KeyboardInterrupt      *)
(*                raised at any line of the try block.                     *)
(***************************************************************************)
EXTENDS Integers, Sequences, FiniteSets, TLC

\* ------------------------------------------------------------------ bounds
\* Most presets one modelled capture run scans (presets of start..end outside
\* 90..99): a run over a longer range is followed for its first MaxScan presets.
MaxScan == 2
\* Most device replies still on their way after a read or a drain of the link.
MaxInFlight == 1

\* ------------------------------------------------------- Python arithmetic
RECURSIVE BitOr(_, _)
\* a | b on non-negative integers
BitOr(a, b) ==
    IF a = 0 THEN b
    ELSE IF b = 0 THEN a
    ELSE (IF a % 2 = 1 \/ b % 2 = 1 THEN 1 ELSE 0) + 2 * BitOr(a \div 2, b \div 2)

\* a << k
Shl(a, k) == a * (2 ^ k)

\* a >> k
Shr(a, k) == a \div (2 ^ k)

\* a & 0x0F
And0F(a) == a % 16

HexDigits == <<"0", "1", "2", "3", "4", "5", "6", "7",
               "8", "9", "A", "B", "C", "D", "E", "F">>

RECURSIVE HexOf(_)
\* the uppercase hex digits of n, most significant first, no padding
HexOf(n) ==
    IF n < 16 THEN <<HexDigits[n + 1]>>
    ELSE HexOf(n \div 16) \o <<HexDigits[(n % 16) + 1]>>

\* "{n:X}": the padding forgotten
Format04XNoPad(n) == HexOf(n)

\* f"{n:04X}": at least four digits, zero-padded on the left; a string is the
\* sequence of its characters
Format04X(n) ==
    LET h == HexOf(n)
    IN  IF Len(h) >= 4 THEN h ELSE [i \in 1..(4 - Len(h)) |-> "0"] \o h

\* response[i], Python's 0-based indexing of a byte string
At(response, i) == response[i + 1]

\* (response[i] << 12) | (response[i+1] << 8) | (response[i+2] << 4) | response[i+3]
Combine16(response, i) ==
    BitOr(BitOr(BitOr(Shl(At(response, i), 12), Shl(At(response, i + 1), 8)),
                Shl(At(response, i + 2), 4)),
          At(response, i + 3))

\* the third nibble taken with the second one's shift
NibblesBadShift(v) ==
    <<And0F(Shr(v, 12)), And0F(Shr(v, 8)), And0F(Shr(v, 8)), And0F(v)>>

\* the four nibbles the move commands put on the wire for a value
Nibbles(v) ==
    <<And0F(Shr(v, 12)), And0F(Shr(v, 8)), And0F(Shr(v, 4)), And0F(v)>>

\* ------------------------------------------------------------ VISCA bytes
PanTiltInquiry == <<129, 9, 6, 18, 255>>
ZoomInquiry    == <<129, 9, 4, 71, 255>>
FocusInquiry   == <<129, 9, 4, 72, 255>>
HomeCommand    == <<129, 1, 6, 4, 255>>
MaxSpeedCommand == <<129, 1, 6, 1, 24, 255>>
RecallCommand(n) == <<129, 1, 4, 63, 2, n, 255>>

AckReply        == <<144, 65, 255>>
CompletionReply == <<144, 81, 255>>
ErrorReply      == <<144, 96, 2, 255>>
\* an inquiry reply: 90 50 <packed nibbles> FF
InquiryReply(data) == <<144, 80>> \o data \o <<255>>

\* ------------------------------------------------ the camera behind the link
\* What the camera may report: pan and tilt nibbles (home, or somewhere else),
\* zoom nibbles, focus nibbles.
DevPanTilt == {<<0, 0, 0, 0, 0, 0, 0, 0>>, <<0, 0, 0, 0, 0, 0, 0, 1>>}
DevZoom    == {<<0, 0, 0, 0>>}
DevFocus   == {<<0, 0, 0, 0>>}

\* A reply on the link; fresh = it answers the command of the exchange in
\* progress (history, for telling a stale reply from the awaited one).
Msg(b) == [bytes |-> b, fresh |-> TRUE]

\* The replies the camera may produce for one command, in order: an inquiry is
\* answered by its reply or not at all (a lost command, a send error); any
\* other command by ACK then Completion, or not at all.
DeviceReplies(command) ==
    IF command = PanTiltInquiry
        THEN {<<Msg(InquiryReply(d))>> : d \in DevPanTilt} \cup {<<>>}
    ELSE IF command = ZoomInquiry
        THEN {<<Msg(InquiryReply(d))>> : d \in DevZoom} \cup {<<>>}
    ELSE IF command = FocusInquiry
        THEN {<<Msg(InquiryReply(d))>> : d \in DevFocus} \cup {<<>>}
    ELSE {<<Msg(AckReply), Msg(CompletionReply)>>, <<>>}

\* Replies already on the link answer earlier commands once a new one is sent.
Age(q) == [i \in DOMAIN q |-> [q[i] EXCEPT !.fresh = FALSE]]

\* ---------------------------------------------------------------- state
VARIABLES
    pc,               \* main: the line of save_camera_presets.main about to run
    sub,              \* the step inside the method that line calls
    start_preset, end_preset, capture_focus,    \* main's inputs
    preset,           \* main's loop variable
    home_position, current_position,
    all_positions,    \* the table: <<key, position>> pairs in insertion order
    skipped_presets,
    saved,            \* preset_positions.json: <<>> until written
    socket,           \* controller.socket: "None", "unconnected" or "connected"
    pipe,             \* replies sent by the camera and not yet read or drained
    attempt, position,    \* get_position's locals
    ev,               \* history: the last two things done to the link
    sentLog,          \* history: the inquiries of the get_position call in progress
    misread,          \* history: that call decoded a reply that was not fresh
    trail,            \* history: what capture's main did since it last came home
    ctest, cpc,       \* the codec function under test and its step
    cv, cnib, cout,   \* a 16-bit value, its nibbles, the value recombined
    cresp, cpos,      \* a reply and the position decoded from it
    cclass,           \* what interpret_response prints for a reply
    preset_data,      \* restore: the table loaded from preset_positions.json
    idx,              \* restore: how many entries the for loop has taken
    restored_count, skipped_count,
    run,              \* restore: which run of the script this is
    wire, wire1,      \* history: the link events of this run, and of the run before
    call,             \* the controller method in progress (or the last one)
    vsocket,          \* using-VISCA: self.socket: "None", "unconnected",
                      \* "connected" or "closed"
    running, command_index, timer_thread,
    upc,              \* using-VISCA: for each thread, the line it is about to run
    ucommand,         \* using-VISCA: for each thread, the index of the command
                      \* its send_command call was given
    uret,             \* using-VISCA: for each thread, what its send_command call
                      \* returned: "none" while it runs, "True", "False", or
                      \* "raised" when it left by an exception
    pending,          \* history: the threads whose command is sent and whose
                      \* reply is not yet read
    motion_frames_count,      \* Motion Detection: the detector's fields
    face_detection_counter, face_frames_count,
    last_face_result, \* [detected, faces]; (False, []) is NoFace
    frame_count,      \* run_detection's local
    motion_detected,  \* what smooth_motion_detection returned for the frame
    person,           \* what detect_person_with_persistence returned for it
    quiet,            \* history: frames without raw motion since the last one
                      \* with raw motion (MOTION_HOLD_FRAMES + 2: more, or none yet)
    ran,              \* history: detect_person ran in the last call
    since,            \* history: calls since detect_person last found a face
                      \* (FACE_HOLD_FRAMES + 2: more, or none yet)
    stored            \* history: the faces it found then

capVars == <<pc, sub, start_preset, end_preset, capture_focus, preset,
             home_position, current_position, all_positions, skipped_presets,
             saved, socket, pipe, attempt, position, ev, sentLog, misread,
             trail>>
codecVars == <<ctest, cpc, cv, cnib, cout, cresp, cpos, cclass>>
resVars == <<preset_data, idx, restored_count, skipped_count, run, wire,
             wire1, call>>
viscaVars == <<vsocket, running, command_index, timer_thread, upc, ucommand,
               uret, pending>>
mdVars == <<motion_frames_count, face_detection_counter, face_frames_count,
            last_face_result, frame_count, motion_detected, person, quiet,
            ran, since, stored>>
vars == <<capVars, codecVars, resVars, viscaVars, mdVars>>

\* The threads of using-VISCA.py: main, the timer thread that start() creates,
\* and a thread that calls send_single_command.
Threads == {"main", "timer", "caller"}

\* Motion Detection/main.py, lines 30-34
MOTION_HOLD_FRAMES == 10
FACE_DETECTION_INTERVAL == 5
FACE_HOLD_FRAMES == 15
\* (False, [])
NoFace == [detected |-> FALSE, faces |-> 0]

\* PTZMotionDetector.__init__, lines 95-103, before run_detection's first frame
MotionIdle ==
    /\ motion_frames_count = 0
    /\ face_detection_counter = 0
    /\ face_frames_count = 0
    /\ last_face_result = NoFace
    /\ frame_count = 0
    /\ motion_detected = FALSE
    /\ person = NoFace
    /\ quiet = MOTION_HOLD_FRAMES + 2
    /\ ran = FALSE
    /\ since = FACE_HOLD_FRAMES + 2
    /\ stored = 0

\* using-VISCA.py is not running
ViscaIdle ==
    /\ vsocket = "None"
    /\ running = FALSE
    /\ command_index = 0
    /\ timer_thread = "None"
    /\ upc = [t \in Threads |-> "off"]
    /\ ucommand = [t \in Threads |-> -1]
    /\ uret = [t \in Threads |-> "none"]
    /\ pending = {}

\* A position dict over the keys pan, tilt, zoom, focus; a key the dict does
\* not hold maps to Unset (no hex string is empty).
Unset == <<>>
EmptyPosition == [pan |-> Unset, tilt |-> Unset, zoom |-> Unset, focus |-> Unset]
\* "k" in d
Has(d, k) == d[k] # Unset

\* f"preset_{preset}": the table key, as its characters
RECURSIVE DecimalOf(_)
DecimalOf(n) ==
    IF n < 10 THEN <<HexDigits[n + 1]>>
    ELSE DecimalOf(n \div 10) \o <<HexDigits[(n % 10) + 1]>>

PresetKey(n) == <<"p", "r", "e", "s", "e", "t", "_">> \o DecimalOf(n)

\* the table replaced by the new entry, not extended by it
TablePutFresh(table, key, value) == <<<<key, value>>>>

\* all_positions[key] = value on an insertion-ordered dict
TablePut(table, key, value) ==
    IF \E i \in DOMAIN table : table[i][1] = key
        THEN [i \in DOMAIN table |->
                 IF table[i][1] = key THEN <<key, value>> ELSE table[i]]
        ELSE Append(table, <<key, value>>)

TableKeys(table) == {table[i][1] : i \in DOMAIN table}

\* ------------------------------------------------------------ the link
\* socket.recv(16) on the blocking socket, TIMEOUT seconds: the oldest reply on
\* the link, or a timeout (socket.error) when it has not arrived in time; at
\* most MaxInFlight replies are ever left on their way.
Recv(q) ==
    (IF q # <<>>
        THEN {[none |-> FALSE, bytes |-> Head(q).bytes, fresh |-> Head(q).fresh,
               pipe |-> Tail(q)]}
        ELSE {})
    \cup
    (IF Len(q) <= MaxInFlight
        THEN {[none |-> TRUE, bytes |-> <<>>, fresh |-> FALSE, pipe |-> q]}
        ELSE {})

\* the command sent and the reply awaited a second time after a timeout
send_command_resend(command) ==
    IF socket = "None"
        THEN {[none |-> TRUE, bytes |-> <<>>, fresh |-> FALSE, pipe |-> pipe,
               calls |-> <<>>]}
    ELSE IF socket # "connected"
        THEN {[none |-> TRUE, bytes |-> <<>>, fresh |-> FALSE, pipe |-> pipe,
               calls |-> <<"send">>]}
    ELSE {[none |-> r.none, bytes |-> r.bytes, fresh |-> r.fresh,
           pipe |-> r.pipe,
           calls |-> IF r.none THEN <<"send", "recv", "send", "recv">>
                     ELSE <<"send", "recv">>] :
             r \in UNION {Recv(Age(pipe) \o rs) : rs \in DeviceReplies(command)}}

\* send_command(command): the possible (response, link) outcomes, each with the
\* socket calls made (calls). Without a socket nothing is sent and None is
\* returned. On a socket that is not connected (connect failed, or the peer
\* reset the connection) socket.send raises socket.error and None is returned.
\* Else the command is sent once, the camera replies as it may, and one recv
\* is made, which returns bytes or times out.
send_command(command) ==
    IF socket = "None"
        THEN {[none |-> TRUE, bytes |-> <<>>, fresh |-> FALSE, pipe |-> pipe,
               calls |-> <<>>]}
    ELSE IF socket # "connected"
        THEN {[none |-> TRUE, bytes |-> <<>>, fresh |-> FALSE, pipe |-> pipe,
               calls |-> <<"send">>]}
    ELSE {[none |-> r.none, bytes |-> r.bytes, fresh |-> r.fresh,
           pipe |-> r.pipe, calls |-> <<"send", "recv">>] :
             r \in UNION {Recv(Age(pipe) \o rs) : rs \in DeviceReplies(command)}}

\* clear_buffer(): the non-blocking recv loop discards what has arrived, a
\* prefix of the link's replies.
clear_buffer ==
    {SubSeq(pipe, k + 1, Len(pipe)) :
        k \in (IF Len(pipe) > MaxInFlight THEN Len(pipe) - MaxInFlight ELSE 0)..Len(pipe)}

\* ------------------------------------------------------- get_position
\* the test of a pan/tilt reply
PanTiltAccepts(r) ==
    /\ ~r.none
    /\ Len(r.bytes) # 0
    /\ Len(r.bytes) >= 11
    /\ At(r.bytes, 1) = 80

\* the test of a zoom or focus reply
ZoomAccepts(r) ==
    /\ ~r.none
    /\ Len(r.bytes) # 0
    /\ Len(r.bytes) >= 7
    /\ At(r.bytes, 1) = 80

\* position["pan"], position["tilt"] from an accepted reply
WithPanTilt(d, response) ==
    [d EXCEPT !.pan  = Format04X(Combine16(response, 2)),
              !.tilt = Format04X(Combine16(response, 6))]

WithZoom(d, response) == [d EXCEPT !.zoom = Format04X(Combine16(response, 2))]

WithFocus(d, response) == [d EXCEPT !.focus = Format04X(Combine16(response, 2))]

\* the lines of main that call get_position, a motion command, a settle sleep
\* and clear_buffer
QueryLines  == {"L278", "L301", "L318"}

\* history: the link event e follows the last one
Ev(e) == <<ev[2], e>>

\* history: what a response is, told from its bytes alone
ReplyClass(r) ==
    IF r.none \/ Len(r.bytes) < 2 \/ r.bytes[2] # 80 THEN "other"
    ELSE IF Len(r.bytes) >= 11 THEN "reply11"
    ELSE IF Len(r.bytes) >= 7 THEN "reply7"
    ELSE "other"

\* history kept with every inquiry sent: its kind, the two link events before
\* it, and what came back
Logged(kind, r) ==
    Append(sentLog, [kind |-> kind, before |-> ev, reply |-> ReplyClass(r)])

\* position = {}
GpBegin ==
    /\ pc \in QueryLines /\ sub = "call"
    /\ position' = EmptyPosition
    /\ attempt' = 0
    /\ sentLog' = <<>>
    /\ misread' = FALSE
    /\ sub' = "pantilt"
    /\ trail' = Append(trail, <<"query">>)
    /\ UNCHANGED <<pc, start_preset, end_preset, capture_focus, preset,
                   home_position, current_position, all_positions,
                   skipped_presets, saved, socket, pipe, ev, codecVars, viscaVars, mdVars, resVars>>

\* one pass of "for attempt in range(3)": the inquiry, and the decode or the
\* failure message
GpPanTilt ==
    /\ pc \in QueryLines /\ sub = "pantilt"
    /\ \E r \in send_command(PanTiltInquiry) :
        /\ pipe' = r.pipe
        /\ sentLog' = Logged("pantilt", r)
        /\ IF PanTiltAccepts(r)
             THEN /\ position' = WithPanTilt(position, r.bytes)
                  /\ misread' = (misread \/ ~r.fresh)
                  /\ sub' = "zoom"
             ELSE /\ sub' = "pause"
                  /\ UNCHANGED <<position, misread>>
    /\ ev' = Ev("send")
    /\ UNCHANGED <<pc, start_preset, trail, end_preset, capture_focus, preset,
                   home_position, current_position, all_positions,
                   skipped_presets, saved, socket, attempt, codecVars, viscaVars, mdVars, resVars>>

\* range(4) in place of range(3)
AnotherAttemptOffByOne(a) == a + 1 < 4

\* whether range(3) holds another pass after pass number a
AnotherAttempt(a) == a + 1 < 3

\* time.sleep(0.2) after a failed attempt, then the next pass or the loop's end
GpPause ==
    /\ pc \in QueryLines /\ sub = "pause"
    /\ ev' = Ev("sleep0.2")
    /\ attempt' = attempt + 1
    /\ sub' = IF AnotherAttempt(attempt) THEN "pantilt" ELSE "zoom"
    /\ UNCHANGED <<pc, start_preset, trail, end_preset, capture_focus, preset,
                   home_position, current_position, all_positions,
                   skipped_presets, saved, socket, pipe, position, sentLog,
                   misread, codecVars, viscaVars, mdVars, resVars>>

\* the focus inquiry made whatever capture_focus says
AfterZoomAlwaysFocus(cf) == "focus"

\* after the zoom inquiry: "if capture_focus:"
AfterZoom(cf) == IF cf THEN "focus" ELSE "return"

GpZoom ==
    /\ pc \in QueryLines /\ sub = "zoom"
    /\ \E r \in send_command(ZoomInquiry) :
        /\ pipe' = r.pipe
        /\ sentLog' = Logged("zoom", r)
        /\ IF ZoomAccepts(r)
             THEN /\ position' = WithZoom(position, r.bytes)
                  /\ misread' = (misread \/ ~r.fresh)
             ELSE UNCHANGED <<position, misread>>
    /\ ev' = Ev("send")
    /\ sub' = AfterZoom(capture_focus)
    /\ UNCHANGED <<pc, start_preset, trail, end_preset, capture_focus, preset,
                   home_position, current_position, all_positions,
                   skipped_presets, saved, socket, attempt, codecVars, viscaVars, mdVars, resVars>>

GpFocus ==
    /\ pc \in QueryLines /\ sub = "focus"
    /\ \E r \in send_command(FocusInquiry) :
        /\ pipe' = r.pipe
        /\ sentLog' = Logged("focus", r)
        /\ IF ZoomAccepts(r)
             THEN /\ position' = WithFocus(position, r.bytes)
                  /\ misread' = (misread \/ ~r.fresh)
             ELSE UNCHANGED <<position, misread>>
    /\ ev' = Ev("send")
    /\ sub' = "return"
    /\ UNCHANGED <<pc, start_preset, trail, end_preset, capture_focus, preset,
                   home_position, current_position, all_positions,
                   skipped_presets, saved, socket, attempt, codecVars, viscaVars, mdVars, resVars>>

get_position == GpBegin \/ GpPanTilt \/ GpPause \/ GpZoom \/ GpFocus

\* ------------------------------------------------- the motion commands
\* set_max_preset_speed(), go_home() and recall_preset(preset): send, sleep,
\* clear_buffer. MotionLines are the lines of main that call one.
MotionLines == {"L270", "L271", "L291", "L325"}

MotionCommand(line) ==
    IF line = "L270" THEN MaxSpeedCommand
    ELSE IF line = "L291" THEN RecallCommand(preset)
    ELSE HomeCommand

\* the sleep of the motion command: 0.2 s after the speed command, 0.5 s after
\* home and recall
MotionSleep(line) == IF line = "L270" THEN "sleep0.2" ELSE "sleep0.5"

\* the final query made right after the full settle, the drain left out
NextLineNoDrain(line) ==
    CASE line = "L270" -> "L271"
      [] line = "L271" -> "L275"
      [] line = "L275" -> "L276"
      [] line = "L276" -> "L278"
      [] line = "L278" -> "L288"
      [] line = "L291" -> "L297"
      [] line = "L297" -> "L298"
      [] line = "L298" -> "L301"
      [] line = "L314" -> "L318"
      [] line = "L315" -> "L318"
      [] line = "L318" -> "L325"
      [] line = "L325" -> "L326"
      [] line = "L326" -> "L327"
      [] line = "L327" -> "L288"
      [] line = "L329" -> "L339"

\* the opening without go_home
NextLineNoGoHome(line) ==
    CASE line = "L270" -> "L275"
      [] line = "L271" -> "L275"
      [] line = "L275" -> "L276"
      [] line = "L276" -> "L278"
      [] line = "L278" -> "L288"
      [] line = "L291" -> "L297"
      [] line = "L297" -> "L298"
      [] line = "L298" -> "L301"
      [] line = "L314" -> "L315"
      [] line = "L315" -> "L318"
      [] line = "L318" -> "L325"
      [] line = "L325" -> "L326"
      [] line = "L326" -> "L327"
      [] line = "L327" -> "L288"
      [] line = "L329" -> "L339"

\* the loop continued right after the store
NextLineNoReturnHome(line) ==
    CASE line = "L270" -> "L271"
      [] line = "L271" -> "L275"
      [] line = "L275" -> "L276"
      [] line = "L276" -> "L278"
      [] line = "L278" -> "L288"
      [] line = "L291" -> "L297"
      [] line = "L297" -> "L298"
      [] line = "L298" -> "L301"
      [] line = "L314" -> "L315"
      [] line = "L315" -> "L318"
      [] line = "L318" -> "L288"
      [] line = "L325" -> "L326"
      [] line = "L326" -> "L327"
      [] line = "L327" -> "L288"
      [] line = "L329" -> "L339"

\* the line of main that runs after a line that neither branches nor ends
NextLine(line) ==
    CASE line = "L270" -> "L271"
      [] line = "L271" -> "L275"
      [] line = "L275" -> "L276"
      [] line = "L276" -> "L278"
      [] line = "L278" -> "L288"
      [] line = "L291" -> "L297"
      [] line = "L297" -> "L298"
      [] line = "L298" -> "L301"
      [] line = "L314" -> "L315"
      [] line = "L315" -> "L318"
      [] line = "L318" -> "L325"
      [] line = "L325" -> "L326"
      [] line = "L326" -> "L327"
      [] line = "L327" -> "L288"
      [] line = "L329" -> "L339"

\* history: the motion command of a line, as main's trail keeps it
MotionEvent(line) ==
    IF line = "L270" THEN <<"speed">>
    ELSE IF line = "L291" THEN <<"recall", preset>>
    ELSE <<"home">>

MotionSend ==
    /\ pc \in MotionLines /\ sub = "call"
    /\ \E r \in send_command(MotionCommand(pc)) : pipe' = r.pipe
    /\ ev' = Ev("send")
    /\ sub' = "sleep"
    /\ trail' = Append(trail, MotionEvent(pc))
    /\ UNCHANGED <<pc, start_preset, end_preset, capture_focus, preset,
                   home_position, current_position, all_positions,
                   skipped_presets, saved, socket, attempt, position, sentLog,
                   misread, codecVars, viscaVars, mdVars, resVars>>

MotionSettle ==
    /\ pc \in MotionLines /\ sub = "sleep"
    /\ ev' = Ev(MotionSleep(pc))
    /\ sub' = "drain"
    /\ UNCHANGED <<pc, start_preset, trail, end_preset, capture_focus, preset,
                   home_position, current_position, all_positions,
                   skipped_presets, saved, socket, pipe, attempt, position,
                   sentLog, misread, codecVars, viscaVars, mdVars, resVars>>

MotionDrain ==
    /\ pc \in MotionLines /\ sub = "drain"
    /\ pipe' \in clear_buffer
    /\ ev' = Ev("drain")
    /\ pc' = NextLine(pc)
    /\ sub' = "call"
    /\ UNCHANGED <<start_preset, trail, end_preset, capture_focus, preset,
                   home_position, current_position, all_positions,
                   skipped_presets, saved, socket, attempt, position, sentLog,
                   misread, codecVars, viscaVars, mdVars, resVars>>

motion_command == MotionSend \/ MotionSettle \/ MotionDrain

\* ------------------------------------------------------------- main
\* The preset numbers the prompt accepts.
ValidPreset(n) ==
    \/ 1 <= n /\ n <= 89
    \/ 100 <= n /\ n <= 149
    \/ 152 <= n /\ n <= 254

\* the test passing over 90..98 only
ReservedButLast(n) == 90 <= n /\ n < 99

\* 90 <= preset <= 99
Reserved(n) == 90 <= n /\ n <= 99

\* the presets a run over start..end recalls
Scanned(s, e) == {n \in s..e : ~(90 <= n /\ n <= 99)}

\* lines 239-260: both numbers valid and start <= end, or sys.exit(1)
ValidateRange ==
    /\ pc = "L239"
    /\ pc' = IF ~ValidPreset(start_preset) \/ ~ValidPreset(end_preset)
                THEN "exit1"
             ELSE IF start_preset > end_preset THEN "exit1"
             ELSE "L265"
    /\ UNCHANGED <<sub, start_preset, trail, end_preset, capture_focus, preset,
                   home_position, current_position, all_positions,
                   skipped_presets, saved, socket, pipe, attempt, position, ev,
                   sentLog, misread, codecVars, viscaVars, mdVars, resVars>>

\* the value connect() returned not looked at
AfterConnectUnchecked(ok) == "L270"

\* lines 265-266: "if not controller.connect(): sys.exit(1)"
AfterConnect(ok) == IF ok THEN "L270" ELSE "exit1"

\* lines 263-266: connect() or sys.exit(1). A failed connect leaves the socket
\* object it created in self.socket.
Connect ==
    /\ pc = "L265"
    /\ \E ok \in BOOLEAN :
        /\ socket' = IF ok THEN "connected" ELSE "unconnected"
        /\ pc' = AfterConnect(ok)
    /\ pipe' = <<>>
    /\ UNCHANGED <<sub, start_preset, trail, end_preset, capture_focus, preset,
                   home_position, current_position, all_positions,
                   skipped_presets, saved, attempt, position, ev, sentLog,
                   misread, codecVars, viscaVars, mdVars, resVars>>

\* time.sleep(time_between_preset) at 275, 314, 326 and
\* time.sleep(initial_check_delay) at 297
SleepLines == {"L275", "L297", "L314", "L326"}

MainSleep ==
    /\ pc \in SleepLines
    /\ ev' = Ev(IF pc = "L297" THEN "probe" ELSE "settle")
    /\ pc' = NextLine(pc)
    /\ trail' = Append(trail, <<IF pc = "L297" THEN "probe" ELSE "settle">>)
    /\ UNCHANGED <<sub, start_preset, end_preset, capture_focus, preset,
                   home_position, current_position, all_positions,
                   skipped_presets, saved, socket, pipe, attempt, position,
                   sentLog, misread, codecVars, viscaVars, mdVars, resVars>>

\* controller.clear_buffer() at 276, 298, 315, 327. After the drain of line
\* 327 the camera is back home and the trail starts anew.
DrainLines == {"L276", "L298", "L315", "L327"}

MainDrain ==
    /\ pc \in DrainLines
    /\ pipe' \in clear_buffer
    /\ ev' = Ev("drain")
    /\ pc' = NextLine(pc)
    /\ trail' = IF pc = "L327" THEN <<>> ELSE Append(trail, <<"drain">>)
    /\ UNCHANGED <<sub, start_preset, end_preset, capture_focus, preset,
                   home_position, current_position, all_positions,
                   skipped_presets, saved, socket, attempt, position, sentLog,
                   misread, codecVars, viscaVars, mdVars, resVars>>

\* line 278: home_position = the position get_position returned. The trail
\* starts anew: the camera is at home.
RecordHome ==
    /\ pc = "L278" /\ sub = "return"
    /\ home_position' = position
    /\ pc' = NextLine(pc)
    /\ sub' = "call"
    /\ attempt' = 0
    /\ sentLog' = <<>>
    /\ misread' = FALSE
    /\ trail' = <<>>
    /\ UNCHANGED <<start_preset, end_preset, capture_focus, preset,
                   current_position, all_positions, skipped_presets, saved,
                   socket, pipe,  position, ev, 
                   codecVars, viscaVars, mdVars, resVars>>

\* lines 288-290: the next preset of range(start_preset, end_preset + 1), passed
\* over when it is one of 90..99; the loop's end leads to the file's writing.
\* current_position is not read again before line 301 assigns it, and the
\* model forgets its value here.
LoopHead ==
    /\ pc = "L288"
    /\ IF preset + 1 > end_preset
         THEN /\ pc' = "L329"
              /\ UNCHANGED preset
         ELSE /\ Cardinality(Scanned(start_preset, preset)) < MaxScan
              /\ preset' = preset + 1
              /\ pc' = IF Reserved(preset + 1) THEN "L288" ELSE "L291"
    /\ current_position' = EmptyPosition
    /\ UNCHANGED <<sub, start_preset, trail, end_preset, capture_focus,
                   home_position, all_positions,
                   skipped_presets, saved, socket, pipe, attempt, position, ev,
                   sentLog, misread, codecVars, viscaVars, mdVars, resVars>>

\* a comparison of pan and tilt alone
SamePositionPanTiltOnly(a, b) == a.pan = b.pan /\ a.tilt = b.tilt

\* current_position == home_position: dict equality
SamePosition(a, b) == a = b

\* lines 301-308: current_position = the position returned; equal to home, the
\* preset is appended to skipped_presets and the loop continues
Compare ==
    /\ pc = "L301" /\ sub = "return"
    /\ current_position' = position
    /\ IF SamePosition(position, home_position)
         THEN /\ skipped_presets' = Append(skipped_presets, preset)
              /\ pc' = "L288"
         ELSE /\ pc' = "L314"
              /\ UNCHANGED skipped_presets
    /\ sub' = "call"
    /\ attempt' = 0
    /\ sentLog' = <<>>
    /\ misread' = FALSE
    /\ trail' = Append(trail, <<IF SamePosition(position, home_position)
                                    THEN "empty" ELSE "occupied">>)
    /\ UNCHANGED <<start_preset, end_preset, capture_focus, preset,
                   home_position, all_positions, saved, socket, pipe, 
                   position, ev,  codecVars, viscaVars, mdVars, resVars>>

\* the probe's position stored in place of the final one
StoredProbe == current_position

\* what line 321 stores under the preset's key: the position line 318 got
Stored == position

\* lines 318-321: all_positions[f"preset_{preset}"] = the position returned
Store ==
    /\ pc = "L318" /\ sub = "return"
    /\ all_positions' = TablePut(all_positions, PresetKey(preset), Stored)
    /\ pc' = NextLine(pc)
    /\ sub' = "call"
    /\ attempt' = 0
    /\ sentLog' = <<>>
    /\ misread' = FALSE
    /\ trail' = Append(trail, <<"store">>)
    /\ UNCHANGED <<start_preset, end_preset, capture_focus, preset,
                   home_position, current_position, skipped_presets, saved,
                   socket, pipe,  position, ev, 
                   codecVars, viscaVars, mdVars, resVars>>

\* lines 329-330: json.dump(all_positions) into preset_positions.json
SaveFile ==
    /\ pc = "L329"
    /\ saved' = <<all_positions>>
    /\ pc' = NextLine(pc)
    /\ UNCHANGED <<sub, start_preset, trail, end_preset, capture_focus, preset,
                   home_position, current_position, all_positions,
                   skipped_presets, socket, pipe, attempt, position, ev,
                   sentLog, misread, codecVars, viscaVars, mdVars, resVars>>

\* disconnect(): a socket there is, is closed and self.socket set to None
disconnect == IF socket # "None" THEN "None" ELSE socket

\* line 339: finally: controller.disconnect()
Finally ==
    /\ pc = "L339"
    /\ socket' = disconnect
    /\ pc' = "done"
    /\ UNCHANGED <<sub, start_preset, trail, end_preset, capture_focus, preset,
                   home_position, current_position, all_positions,
                   skipped_presets, saved, pipe, attempt, position, ev,
                   sentLog, misread, codecVars, viscaVars, mdVars, resVars>>

\* the inputs the model draws: a starting preset and how far past it the
\* ending preset lies (-1: before it)
StartInputs == {0, 42, 89}
SpanInputs  == {-1, 0, 11, 12}

\* no controller method has been called
NoCall == [op |-> "none", after |-> "none", arg |-> 0, cmd |-> <<>>,
           sleep |-> "none", pre |-> "None", calls |-> <<>>, resp |-> "none",
           ret |-> "none", was |-> FALSE, erred |-> FALSE]

\* the restore script is not running
RestoreIdle ==
    /\ preset_data = <<>>
    /\ idx = 0
    /\ restored_count = 0
    /\ skipped_count = 0
    /\ run = 0
    /\ wire = <<>>
    /\ wire1 = <<>>
    /\ call = NoCall

CodecIdle ==
    /\ ctest = "none"
    /\ cpc = "off"
    /\ cv = 0
    /\ cnib = <<>>
    /\ cout = 0
    /\ cresp = <<>>
    /\ cpos = EmptyPosition
    /\ cclass = "none"

InitCapture ==
    /\ pc = "L239"
    /\ sub = "call"
    /\ start_preset \in StartInputs
    /\ end_preset \in {start_preset + d : d \in SpanInputs}
    /\ capture_focus \in BOOLEAN
    /\ Cardinality(Scanned(start_preset, end_preset))
           <= (IF capture_focus THEN MaxScan - 1 ELSE MaxScan)
    /\ preset = start_preset - 1
    /\ home_position = EmptyPosition
    /\ current_position = EmptyPosition
    /\ all_positions = <<>>
    /\ skipped_presets = <<>>
    /\ saved = <<>>
    /\ socket = "None"
    /\ pipe = <<>>
    /\ attempt = 0
    /\ position = EmptyPosition
    /\ ev = <<"none", "none">>
    /\ sentLog = <<>>
    /\ misread = FALSE
    /\ trail = <<>>

\* ------------------------------------------- the codec functions alone
\* set_zoom_position / set_pan_tilt_position: the value's four nibbles
CodecEncode ==
    /\ ctest = "roundtrip" /\ cpc = "encode"
    /\ cnib' = Nibbles(cv)
    /\ cpc' = "recombine"
    /\ UNCHANGED <<cclass, ctest, cv, cout, cresp, cpos, capVars, resVars, viscaVars, mdVars>>

\* get_position: the value recombined from a reply that carries those nibbles
CodecRecombine ==
    /\ ctest = "roundtrip" /\ cpc = "recombine"
    /\ cresp' = InquiryReply(cnib)
    /\ cout' = Combine16(InquiryReply(cnib), 2)
    /\ cpc' = "done"
    /\ UNCHANGED <<cclass, ctest, cv, cnib, cpos, capVars, resVars, viscaVars, mdVars>>

\* get_position's pan/tilt branch on one response
CodecDecodePanTilt ==
    /\ ctest = "pantilt" /\ cpc = "decode"
    /\ cpos' = IF PanTiltAccepts([none |-> FALSE, bytes |-> cresp])
                  THEN WithPanTilt(EmptyPosition, cresp)
                  ELSE EmptyPosition
    /\ cpc' = "done"
    /\ UNCHANGED <<cclass, ctest, cv, cnib, cout, cresp, capVars, resVars, viscaVars, mdVars>>

\* get_position's zoom branch on one response
CodecDecodeZoom ==
    /\ ctest = "zoom" /\ cpc = "decode"
    /\ cpos' = IF ZoomAccepts([none |-> FALSE, bytes |-> cresp])
                  THEN WithZoom(EmptyPosition, cresp)
                  ELSE EmptyPosition
    /\ cpc' = "done"
    /\ UNCHANGED <<cclass, ctest, cv, cnib, cout, cresp, capVars, resVars, viscaVars, mdVars>>

\* ---------------------------------------- using-VISCA.py: interpret_response
\* error_messages.get(error_code, f"Unknown error: ...")
error_messages(error_code) ==
    CASE error_code = 2 -> "Syntax error"
      [] error_code = 3 -> "Command buffer full"
      [] error_code = 4 -> "Command cancelled"
      [] error_code = 5 -> "No socket"
      [] error_code = 65 -> "Command not executable"
      [] OTHER -> "Unknown error"

\* response[1] == 0x41
IsAckByte(b) == b = 65

\* interpret_response(response): the message it prints, "nothing" when it
\* returns without printing
interpret_response(response) ==
    IF Len(response) < 3 THEN "nothing"
    ELSE IF At(response, 0) = 144
        THEN IF IsAckByte(At(response, 1)) THEN "Command acknowledged"
             ELSE IF At(response, 1) = 81 THEN "Command completed"
             ELSE IF At(response, 1) = 96 THEN error_messages(At(response, 2))
             ELSE "Unknown response type"
    ELSE "nothing"

\* send_command, lines 85-89: a response that is not empty is interpreted
CodecInterpret ==
    /\ ctest = "interpret" /\ cpc = "decode"
    /\ cclass' = IF cresp # <<>> THEN interpret_response(cresp) ELSE "nothing"
    /\ cpc' = "done"
    /\ UNCHANGED <<ctest, cv, cnib, cout, cresp, cpos, capVars, resVars, viscaVars, mdVars>>

\* The responses interpret_response is tried on: second bytes 4y, 5y, 6y for
\* several y and others; third bytes that are the listed error codes and that
\* are not; responses of 0, 1 and 2 bytes; a first byte that is not 0x90.
SecondBytes == {64, 65, 66, 79, 80, 81, 82, 96, 97, 98, 112, 0}
ThirdBytes == {2, 3, 4, 5, 65, 1, 255}
InterpretSamples ==
    {<<f, t>> : f \in {144, 160}, t \in SecondBytes}
    \cup {<<f, t, c>> : f \in {144, 160}, t \in SecondBytes, c \in ThirdBytes}
    \cup {<<f, t, c, 255>> : f \in {144, 160}, t \in SecondBytes, c \in ThirdBytes}
    \cup {<<>>, <<144>>, <<255>>, InquiryReply(<<1, 2, 3, 4>>),
          InquiryReply(<<1, 2, 3, 4, 5, 6, 7, 8>>)}

\* The replies the decoder is tried on: data bytes that are nibbles, and data
\* bytes that are not (16, 31, 255); type bytes 50, 51, 60; pan/tilt-sized,
\* zoom-sized and shorter replies.
QuadSamples ==
    {<<0, 0, 0, 0>>, <<1, 2, 3, 4>>, <<5, 6, 7, 8>>, <<9, 10, 11, 12>>,
     <<13, 14, 15, 0>>, <<15, 15, 15, 15>>, <<0, 0, 10, 11>>,
     <<16, 0, 0, 0>>, <<0, 0, 1, 16>>, <<1, 2, 31, 4>>, <<0, 0, 0, 255>>}

DataSamples == QuadSamples \cup {p \o t : p \in QuadSamples, t \in QuadSamples}

ReplySamples ==
    {<<144, t>> \o d \o <<255>> : t \in {80, 81, 96}, d \in DataSamples}
    \cup {<<>>, <<144>>, AckReply, CompletionReply, ErrorReply}

CaptureIdle ==
    /\ pc = "off"
    /\ sub = "call"
    /\ start_preset = 0
    /\ end_preset = 0
    /\ capture_focus = FALSE
    /\ preset = 0
    /\ home_position = EmptyPosition
    /\ current_position = EmptyPosition
    /\ all_positions = <<>>
    /\ skipped_presets = <<>>
    /\ saved = <<>>
    /\ socket = "None"
    /\ pipe = <<>>
    /\ attempt = 0
    /\ position = EmptyPosition
    /\ ev = <<"none", "none">>
    /\ sentLog = <<>>
    /\ misread = FALSE
    /\ trail = <<>>

InitCodec ==
    /\ MotionIdle
    /\ ViscaIdle
    /\ CaptureIdle
    /\ RestoreIdle
    /\ cnib = <<>>
    /\ cout = 0
    /\ cpos = EmptyPosition
    /\ cclass = "none"
    /\ \/ /\ ctest = "roundtrip"
          /\ cpc = "encode"
          /\ cv \in 0..(2 ^ 16 - 1)
          /\ cresp = <<>>
       \/ /\ ctest \in {"pantilt", "zoom"}
          /\ cpc = "decode"
          /\ cv = 0
          /\ cresp \in ReplySamples
       \/ /\ ctest = "interpret"
          /\ cpc = "decode"
          /\ cv = 0
          /\ cresp \in InterpretSamples

NextCodec ==
    \/ CodecEncode
    \/ CodecRecombine
    \/ CodecDecodePanTilt
    \/ CodecDecodeZoom
    \/ CodecInterpret

SpecCodec == InitCodec /\ [][NextCodec]_vars

\* ------------------------------------- restore_camera_presets.py: the methods
\* Most entries of a table a modelled restore run loads.
MaxEntries == 2

\* int(s, 16) of a string of uppercase hex digits
RECURSIVE HexVal(_)
HexVal(chars) ==
    IF chars = <<>> THEN 0
    ELSE 16 * HexVal(SubSeq(chars, 1, Len(chars) - 1))
         + (CHOOSE d \in 0..15 : HexDigits[d + 1] = chars[Len(chars)])

\* int(s) of a decimal string with an optional minus sign
RECURSIVE IntOf(_)
IntOf(chars) ==
    IF chars = <<>> THEN 0
    ELSE IF chars[1] = "-" THEN 0 - IntOf(Tail(chars))
    ELSE 10 * IntOf(SubSeq(chars, 1, Len(chars) - 1))
         + (CHOOSE d \in 0..9 : HexDigits[d + 1] = chars[Len(chars)])

\* int(preset_key.split("_")[1]): the characters after the first underscore
\* (the keys of the model hold one underscore)
PresetNumber(key) ==
    LET u == CHOOSE i \in DOMAIN key : key[i] = "_" /\ \A j \in 1..(i - 1) : key[j] # "_"
    IN  IntOf(SubSeq(key, u + 1, Len(key)))

\* the zoom read back in place of the zoom set
SetZoomCommandInquiry(zoom_hex) == ZoomInquiry

SetZoomCommand(zoom_hex) ==
    <<129, 1, 4, 71>> \o Nibbles(HexVal(zoom_hex)) \o <<255>>

\* the speed bytes lowered while replies are still on the link
SetPanTiltCommandByLink(pan_hex, tilt_hex) ==
    <<129, 1, 6, 2>> \o (IF pipe = <<>> THEN <<24, 24>> ELSE <<23, 23>>)
        \o Nibbles(HexVal(pan_hex)) \o Nibbles(HexVal(tilt_hex)) \o <<255>>

\* pan_speed and tilt_speed at their default, 0x18
SetPanTiltCommand(pan_hex, tilt_hex) ==
    <<129, 1, 6, 2, 24, 24>> \o Nibbles(HexVal(pan_hex))
        \o Nibbles(HexVal(tilt_hex)) \o <<255>>

SetPresetCommand(preset_number) == <<129, 1, 4, 63, 1, preset_number, 255>>

\* set_preset accepting 255 as well
PresetNumberOkUpTo255(n) == 0 <= n /\ n <= 255

\* 0 <= preset_number <= 254
PresetNumberOk(n) == 0 <= n /\ n <= 254

\* A method of the controller entered: its name, argument, the command it
\* builds and the sleep it makes; nothing done yet. History: the method called
\* before it (after), the socket on entry (pre), and whether a send of this
\* socket has raised socket.error, on entry (was) and by now (erred).
Entered(op, arg, cmd, sleep) ==
    [op |-> op, after |-> call.op, arg |-> arg, cmd |-> cmd, sleep |-> sleep,
     pre |-> socket, calls |-> <<>>, resp |-> "none", ret |-> "pending",
     was |-> call.erred, erred |-> call.erred]

\* history: the link event e of the restore run, with the entry it was made for
Wired(e) == IF run = 0 THEN wire ELSE Append(wire, [i |-> idx, e |-> e])

\* where a controller method may be in progress: the lines of restore's main
\* that call one, and a caller outside the two scripts ("api")
MethodLines == {"R198", "R201", "R212", "api"}

\* self.send_command(command)
MethodSend ==
    /\ pc \in MethodLines /\ sub = "send"
    /\ \E r \in send_command(call.cmd) :
        /\ pipe' = r.pipe
        /\ call' = [call EXCEPT !.calls = @ \o r.calls,
                                !.resp = IF r.none THEN "None" ELSE "bytes",
                                !.erred = @ \/ r.calls = <<"send">>]
        /\ wire' = IF r.calls = <<"send", "recv">>
                      THEN Wired(<<"send", call.cmd>>) ELSE wire
    /\ ev' = Ev("send")
    /\ sub' = "sleep"
    /\ UNCHANGED <<pc, start_preset, trail, end_preset, capture_focus, preset,
                   home_position, current_position, all_positions,
                   skipped_presets, saved, socket, attempt, position, sentLog,
                   misread, codecVars, viscaVars, mdVars, preset_data, idx, restored_count,
                   skipped_count, run, wire1>>

\* time.sleep(0.2) or time.sleep(0.5)
MethodSettle ==
    /\ pc \in MethodLines /\ sub = "sleep"
    /\ ev' = Ev(call.sleep)
    /\ call' = [call EXCEPT !.calls = Append(@, call.sleep)]
    /\ wire' = Wired(<<call.sleep>>)
    /\ sub' = "drain"
    /\ UNCHANGED <<pc, start_preset, trail, end_preset, capture_focus, preset,
                   home_position, current_position, all_positions,
                   skipped_presets, saved, socket, pipe, attempt, position,
                   sentLog, misread, codecVars, viscaVars, mdVars, preset_data, idx,
                   restored_count, skipped_count, run, wire1>>

\* what the method returns after its clear_buffer
MethodResult(c) ==
    IF c.op = "set_preset" THEN "True"
    ELSE IF c.op = "set_max_preset_speed" THEN c.resp
    ELSE "None"

\* self.clear_buffer(), then the return. With self.socket None the first
\* statement, self.socket.setblocking(False), raises AttributeError.
MethodDrain ==
    /\ pc \in MethodLines /\ sub = "drain"
    /\ IF socket = "None"
         THEN /\ call' = [call EXCEPT !.ret = "raise"]
              /\ UNCHANGED <<pipe, ev, wire>>
         ELSE /\ pipe' \in clear_buffer
              /\ ev' = Ev("drain")
              /\ call' = [call EXCEPT !.calls = Append(@, "drain"),
                                      !.ret = MethodResult(call)]
              /\ wire' = Wired(<<"drain">>)
    /\ sub' = "return"
    /\ UNCHANGED <<pc, start_preset, trail, end_preset, capture_focus, preset,
                   home_position, current_position, all_positions,
                   skipped_presets, saved, socket, attempt, position, sentLog,
                   misread, codecVars, viscaVars, mdVars, preset_data, idx, restored_count,
                   skipped_count, run, wire1>>

method_body == MethodSend \/ MethodSettle \/ MethodDrain

\* ---------------------------------------- restore_camera_presets.py: main
\* what the restore script never touches: save_camera_presets.main's variables
\* and get_position's
captureOnly == <<start_preset, end_preset, capture_focus, preset,
                 home_position, current_position, all_positions,
                 skipped_presets, saved, attempt, position, sentLog, misread,
                 trail>>

\* the entry the for loop is at: its key and its position data
preset_key == preset_data[idx][1]
position_data == preset_data[idx][2]

\* lines 173-180: connect() or sys.exit(1); then the two counters
RestoreConnect ==
    /\ pc = "R175"
    /\ \/ /\ socket' = "connected"
          /\ pc' = "R182"
       \/ /\ socket' = "unconnected"
          /\ pc' = "exit1"
    /\ pipe' = <<>>
    /\ restored_count' = 0
    /\ skipped_count' = 0
    /\ UNCHANGED <<sub, ev, captureOnly, codecVars, viscaVars, mdVars, preset_data, idx, run,
                   wire, wire1, call>>

\* line 182: the next item of preset_data.items(), or the loop's end
RestoreLoopHead ==
    /\ pc = "R182"
    /\ IF idx < Len(preset_data)
         THEN /\ idx' = idx + 1
              /\ pc' = "R192"
         ELSE /\ pc' = "R219"
              /\ UNCHANGED idx
    /\ UNCHANGED <<sub, socket, pipe, ev, captureOnly, codecVars, viscaVars, mdVars, preset_data,
                   restored_count, skipped_count, run, wire, wire1, call>>

\* focus required as well
IncompleteOrNoFocus(d) ==
    ~Has(d, "pan") \/ ~Has(d, "tilt") \/ ~Has(d, "zoom") \/ ~Has(d, "focus")

\* "pan" not in position_data or "tilt" not in ... or "zoom" not in ...
Incomplete(d) == ~Has(d, "pan") \/ ~Has(d, "tilt") \/ ~Has(d, "zoom")

\* lines 192-195
RestoreCheckFields ==
    /\ pc = "R192"
    /\ IF Incomplete(position_data)
         THEN /\ skipped_count' = skipped_count + 1
              /\ pc' = "R182"
         ELSE /\ pc' = "R198"
              /\ UNCHANGED skipped_count
    /\ UNCHANGED <<sub, socket, pipe, ev, captureOnly, codecVars, viscaVars, mdVars, preset_data,
                   idx, restored_count, run, wire, wire1, call>>

\* line 198: controller.set_zoom_position(position_data["zoom"])
RestoreSetZoom ==
    /\ pc = "R198" /\ sub = "call"
    /\ call' = Entered("set_zoom_position", 0,
                       SetZoomCommand(position_data.zoom), "sleep0.2")
    /\ sub' = "send"
    /\ UNCHANGED <<pc, socket, pipe, ev, captureOnly, codecVars, viscaVars, mdVars, preset_data,
                   idx, restored_count, skipped_count, run, wire, wire1>>

\* lines 201-204: controller.set_pan_tilt_position(pan, tilt)
RestoreSetPanTilt ==
    /\ pc = "R201" /\ sub = "call"
    /\ call' = Entered("set_pan_tilt_position", 0,
                       SetPanTiltCommand(position_data.pan, position_data.tilt),
                       "sleep0.2")
    /\ sub' = "send"
    /\ UNCHANGED <<pc, socket, pipe, ev, captureOnly, codecVars, viscaVars, mdVars, preset_data,
                   idx, restored_count, skipped_count, run, wire, wire1>>

\* the preset saved right after the pan/tilt move, the settle wait left out
RestoreNextLineNoSettle(line) ==
    CASE line = "R198" -> "R201"
      [] line = "R201" -> "R212"
      [] line = "R208" -> "R209"
      [] line = "R209" -> "R212"
      [] line = "R219" -> "R227"

\* the line of restore's main after a line that does not branch
RestoreNextLine(line) ==
    CASE line = "R198" -> "R201"
      [] line = "R201" -> "R208"
      [] line = "R208" -> "R209"
      [] line = "R209" -> "R212"
      [] line = "R219" -> "R227"

\* a move method returns to main; an exception it raised leaves the try block
\* for the finally clause
RestoreMoveReturns ==
    /\ pc \in {"R198", "R201"} /\ sub = "return"
    /\ pc' = IF call.ret = "raise" THEN "R227" ELSE RestoreNextLine(pc)
    /\ sub' = "call"
    /\ UNCHANGED <<socket, pipe, ev, captureOnly, codecVars, viscaVars, mdVars, resVars>>

\* line 208: time.sleep(TIME_BETWEEN_MOVES)
RestoreSleep ==
    /\ pc = "R208"
    /\ ev' = Ev("settle")
    /\ wire' = Wired(<<"settle">>)
    /\ pc' = RestoreNextLine(pc)
    /\ UNCHANGED <<sub, socket, pipe, captureOnly, codecVars, viscaVars, mdVars, preset_data, idx,
                   restored_count, skipped_count, run, wire1, call>>

\* line 209: controller.clear_buffer()
RestoreDrain ==
    /\ pc = "R209"
    /\ pipe' \in clear_buffer
    /\ ev' = Ev("drain")
    /\ wire' = Wired(<<"drain">>)
    /\ pc' = RestoreNextLine(pc)
    /\ UNCHANGED <<sub, socket, captureOnly, codecVars, viscaVars, mdVars, preset_data, idx,
                   restored_count, skipped_count, run, wire1, call>>

\* set_preset(preset_number), lines 134-139: the range check, which returns
\* False, or the command built
set_preset(preset_number) ==
    IF ~PresetNumberOk(preset_number)
        THEN [Entered("set_preset", preset_number, <<>>, "sleep0.2")
                 EXCEPT !.ret = "False"]
        ELSE Entered("set_preset", preset_number,
                     SetPresetCommand(preset_number), "sleep0.2")

\* line 212: controller.set_preset(preset_number)
RestoreSetPreset ==
    /\ pc = "R212" /\ sub = "call"
    /\ call' = set_preset(PresetNumber(preset_key))
    /\ sub' = IF call'.ret = "False" THEN "return" ELSE "send"
    /\ UNCHANGED <<pc, socket, pipe, ev, captureOnly, codecVars, viscaVars, mdVars, preset_data,
                   idx, restored_count, skipped_count, run, wire, wire1>>

\* lines 212-217: the counter the returned value selects
RestoreCount ==
    /\ pc = "R212" /\ sub = "return"
    /\ IF call.ret = "raise"
         THEN /\ pc' = "R227"
              /\ UNCHANGED <<restored_count, skipped_count>>
         ELSE /\ pc' = "R182"
              /\ IF call.ret = "True"
                   THEN /\ restored_count' = restored_count + 1
                        /\ UNCHANGED skipped_count
                   ELSE /\ skipped_count' = skipped_count + 1
                        /\ UNCHANGED restored_count
    /\ sub' = "call"
    /\ UNCHANGED <<socket, pipe, ev, captureOnly, codecVars, viscaVars, mdVars, preset_data, idx,
                   run, wire, wire1, call>>

\* lines 219-224: the report
RestoreReport ==
    /\ pc = "R219"
    /\ pc' = RestoreNextLine(pc)
    /\ UNCHANGED <<sub, socket, pipe, ev, captureOnly, codecVars, viscaVars, mdVars, resVars>>

\* line 227: finally: controller.disconnect()
RestoreFinally ==
    /\ pc = "R227"
    /\ socket' = disconnect
    /\ pipe' = <<>>
    /\ pc' = "done"
    /\ UNCHANGED <<sub, ev, captureOnly, codecVars, viscaVars, mdVars, resVars>>

\* the script run a second time on the same preset_positions.json: a new
\* process, a new controller. wire1 keeps the first run's link events, with a
\* closing mark when that run left by sys.exit(1).
RestoreAgain ==
    /\ pc \in {"done", "exit1"} /\ run = 1
    /\ run' = 2
    /\ wire1' = IF pc = "done" THEN wire
                ELSE Append(wire, [i |-> 0, e |-> <<"exit1">>])
    /\ wire' = <<>>
    /\ idx' = 0
    /\ restored_count' = 0
    /\ skipped_count' = 0
    /\ call' = NoCall
    /\ socket' = "None"
    /\ pipe' = <<>>
    /\ ev' = <<"none", "none">>
    /\ pc' = "R175"
    /\ sub' = "call"
    /\ UNCHANGED <<captureOnly, codecVars, viscaVars, mdVars, preset_data>>

\* the tables the model loads: keys preset_0, preset_254, preset_255 and
\* preset_-1; position data whole, or lacking one field
RestoreKeys ==
    {PresetKey(0), PresetKey(254), PresetKey(255),
     <<"p", "r", "e", "s", "e", "t", "_", "-", "1">>}

WholePosition ==
    [pan |-> <<"1", "2", "3", "4">>, tilt |-> <<"5", "6", "7", "8">>,
     zoom |-> <<"4", "0", "0", "0">>, focus |-> <<"0", "A", "B", "C">>]

RestorePositions ==
    {WholePosition} \cup {[WholePosition EXCEPT ![k] = Unset] :
                             k \in {"pan", "tilt", "zoom", "focus"}}

RestoreEntries == {<<k, d>> : k \in RestoreKeys, d \in RestorePositions}

RestoreTables ==
    {t \in UNION {[1..n -> RestoreEntries] : n \in 0..MaxEntries} :
        \A i, j \in DOMAIN t : t[i][1] = t[j][1] => i = j}

\* the capture script is not running
CaptureOff ==
    /\ start_preset = 0
    /\ end_preset = 0
    /\ capture_focus = FALSE
    /\ preset = 0
    /\ home_position = EmptyPosition
    /\ current_position = EmptyPosition
    /\ all_positions = <<>>
    /\ skipped_presets = <<>>
    /\ saved = <<>>
    /\ attempt = 0
    /\ position = EmptyPosition
    /\ sentLog = <<>>
    /\ misread = FALSE
    /\ trail = <<>>

InitRestore ==
    /\ MotionIdle
    /\ ViscaIdle
    /\ CaptureOff
    /\ CodecIdle
    /\ pc = "R175"
    /\ sub = "call"
    /\ socket = "None"
    /\ pipe = <<>>
    /\ ev = <<"none", "none">>
    /\ preset_data \in RestoreTables
    /\ idx = 0
    /\ restored_count = 0
    /\ skipped_count = 0
    /\ run = 1
    /\ wire = <<>>
    /\ wire1 = <<>>
    /\ call = NoCall

NextRestore ==
    \/ RestoreConnect
    \/ RestoreLoopHead
    \/ RestoreCheckFields
    \/ RestoreSetZoom
    \/ RestoreSetPanTilt
    \/ RestoreMoveReturns
    \/ RestoreSleep
    \/ RestoreDrain
    \/ RestoreSetPreset
    \/ RestoreCount
    \/ RestoreReport
    \/ RestoreFinally
    \/ RestoreAgain
    \/ method_body

SpecRestore == InitRestore /\ [][NextRestore]_vars

\* ------------------------------- the controller called outside the scripts
\* A caller that holds a controller and calls its methods in any order, one
\* after the other, while the peer may reset the connection.
ApiReady == pc = "api" /\ sub \in {"call", "return"}

\* what a caller other than restore's main never touches
restoreOnly == <<preset_data, idx, restored_count, skipped_count, run, wire, wire1>>

\* connect(): a new socket, connected or (socket.error) not
ApiConnect ==
    /\ ApiReady
    /\ \E ok \in BOOLEAN :
        /\ socket' = IF ok THEN "connected" ELSE "unconnected"
        /\ call' = [Entered("connect", 0, <<>>, "none") EXCEPT
                       !.ret = IF ok THEN "True" ELSE "False",
                       !.was = FALSE, !.erred = FALSE]
    /\ pipe' = <<>>
    /\ sub' = "return"
    /\ UNCHANGED <<pc, ev, captureOnly, codecVars, viscaVars, mdVars, restoreOnly>>

\* close() called on None as well
disconnect_calls_unguarded == <<"close">>

\* disconnect(): "if self.socket:" guards the close
disconnect_calls == IF socket # "None" THEN <<"close">> ELSE <<>>

ApiDisconnect ==
    /\ ApiReady
    /\ socket' = disconnect
    /\ call' = [Entered("disconnect", 0, <<>>, "none") EXCEPT
                   !.calls = disconnect_calls, !.ret = "None",
                   !.was = FALSE, !.erred = FALSE]
    /\ pipe' = <<>>
    /\ sub' = "return"
    /\ UNCHANGED <<pc, ev, captureOnly, codecVars, viscaVars, mdVars, restoreOnly>>

\* the commands and preset numbers the caller passes
ApiCommands == {HomeCommand, ZoomInquiry}
PresetSamples == {0, 1, 89, 254, 255, -1}

\* send_command(command) called directly
ApiSendCommand ==
    /\ ApiReady
    /\ Len(pipe) <= MaxInFlight
    /\ \E command \in ApiCommands : \E r \in send_command(command) :
        /\ pipe' = r.pipe
        /\ call' = [Entered("send_command", 0, command, "none") EXCEPT
                       !.calls = r.calls,
                       !.resp = IF r.none THEN "None" ELSE "bytes",
                       !.ret = IF r.none THEN "None" ELSE "bytes",
                       !.erred = @ \/ r.calls = <<"send">>]
    /\ ev' = Ev("send")
    /\ sub' = "return"
    /\ UNCHANGED <<pc, socket, captureOnly, codecVars, viscaVars, mdVars, restoreOnly>>

\* clear_buffer() called directly
ApiClearBuffer ==
    /\ ApiReady
    /\ IF socket = "None"
         THEN /\ call' = [Entered("clear_buffer", 0, <<>>, "none") EXCEPT
                             !.ret = "raise"]
              /\ UNCHANGED <<pipe, ev>>
         ELSE /\ pipe' \in clear_buffer
              /\ ev' = Ev("drain")
              /\ call' = [Entered("clear_buffer", 0, <<>>, "none") EXCEPT
                             !.calls = <<"drain">>, !.ret = "None"]
    /\ sub' = "return"
    /\ UNCHANGED <<pc, socket, captureOnly, codecVars, viscaVars, mdVars, restoreOnly>>

\* go_home with the short sleep of the parameter commands
ApiMethodsHomeShortSleep ==
    {Entered("go_home", 0, HomeCommand, "sleep0.2"),
     Entered("recall_preset", 1, RecallCommand(1), "sleep0.5"),
     Entered("set_max_preset_speed", 0, MaxSpeedCommand, "sleep0.2"),
     Entered("set_zoom_position", 0, SetZoomCommand(WholePosition.zoom), "sleep0.2"),
     Entered("set_pan_tilt_position", 0,
             SetPanTiltCommand(WholePosition.pan, WholePosition.tilt), "sleep0.2")}
    \cup {set_preset(n) : n \in PresetSamples}

\* the methods that send, sleep and drain, entered with the caller's arguments
ApiMethods ==
    {Entered("go_home", 0, HomeCommand, "sleep0.5"),
     Entered("recall_preset", 1, RecallCommand(1), "sleep0.5"),
     Entered("set_max_preset_speed", 0, MaxSpeedCommand, "sleep0.2"),
     Entered("set_zoom_position", 0, SetZoomCommand(WholePosition.zoom), "sleep0.2"),
     Entered("set_pan_tilt_position", 0,
             SetPanTiltCommand(WholePosition.pan, WholePosition.tilt), "sleep0.2")}
    \cup {set_preset(n) : n \in PresetSamples}

ApiCallMethod ==
    /\ ApiReady
    /\ Len(pipe) <= MaxInFlight
    /\ call' \in ApiMethods
    /\ sub' = IF call'.ret = "False" THEN "return" ELSE "send"
    /\ UNCHANGED <<pc, socket, pipe, ev, captureOnly, codecVars, viscaVars, mdVars, restoreOnly>>

\* the peer resets the connection: what was on its way is lost
LinkBreaks ==
    /\ pc = "api"
    /\ socket = "connected"
    /\ socket' = "broken"
    /\ pipe' = <<>>
    /\ UNCHANGED <<pc, sub, ev, captureOnly, codecVars, viscaVars, mdVars, resVars>>

InitLink ==
    /\ MotionIdle
    /\ ViscaIdle
    /\ CaptureOff
    /\ CodecIdle
    /\ RestoreIdle
    /\ pc = "api"
    /\ sub = "call"
    /\ socket = "None"
    /\ pipe = <<>>
    /\ ev = <<"none", "none">>

NextLink ==
    \/ ApiConnect
    \/ ApiDisconnect
    \/ ApiSendCommand
    \/ ApiClearBuffer
    \/ ApiCallMethod
    \/ method_body
    \/ LinkBreaks

SpecLink == InitLink /\ [][NextLink]_vars

Init == InitCapture /\ CodecIdle /\ RestoreIdle /\ ViscaIdle /\ MotionIdle

Next ==
    \/ ValidateRange
    \/ Connect
    \/ motion_command
    \/ MainSleep
    \/ MainDrain
    \/ get_position
    \/ RecordHome
    \/ LoopHead
    \/ Compare
    \/ Store
    \/ SaveFile
    \/ Finally

Spec == Init /\ [][Next]_vars

\* either script run
\* A capture run over the range 149..152, followed for its first MaxScan
\* presets, with runs over 150..152 (refused) and 152..152.
ScanStartInputs == {149, 150, 152}
InitScan ==
    /\ CodecIdle /\ RestoreIdle /\ ViscaIdle /\ MotionIdle
    /\ pc = "L239"
    /\ sub = "call"
    /\ start_preset \in ScanStartInputs
    /\ end_preset = 152
    /\ capture_focus \in BOOLEAN
    /\ capture_focus => start_preset = end_preset
    /\ preset = start_preset - 1
    /\ home_position = EmptyPosition
    /\ current_position = EmptyPosition
    /\ all_positions = <<>>
    /\ skipped_presets = <<>>
    /\ saved = <<>>
    /\ socket = "None"
    /\ pipe = <<>>
    /\ attempt = 0
    /\ position = EmptyPosition
    /\ ev = <<"none", "none">>
    /\ sentLog = <<>>
    /\ misread = FALSE
    /\ trail = <<>>

SpecScan == InitScan /\ [][Next]_vars

\* The peer resets the connection while the restore script runs: from then on
\* socket.send raises a socket error (restore send_command, lines 57-62).
RestoreLinkBreaks ==
    /\ run >= 1
    /\ pc \notin {"done", "exit1"}
    /\ socket = "connected"
    /\ socket' = "broken"
    /\ pipe' = <<>>
    /\ UNCHANGED <<pc, sub, ev, captureOnly, codecVars, viscaVars, mdVars, resVars>>

\* the restore script over a link the peer may reset
SpecRestoreLossy == InitRestore /\ [][NextRestore \/ RestoreLinkBreaks]_vars

InitRuns == Init \/ InitRestore
NextRuns == Next \/ NextRestore
SpecRuns == InitRuns /\ [][NextRuns]_vars

\* ------------------------------------------------------ keyboard interrupt
\* the lines of save_camera_presets.main inside try (268-336)
TryLines == {"L270", "L271", "L275", "L276", "L278", "L288", "L291", "L297",
             "L298", "L301", "L314", "L315", "L318", "L325", "L326", "L327",
             "L329"}
\* the lines of restore_camera_presets.main inside try (178-224)
RestoreTryLines == {"R182", "R192", "R198", "R201", "R208", "R209", "R212",
                    "R219"}

\* where control goes when an exception leaves capture's try block
CaptureHandlerNoFinally == "done"

\* save_camera_presets.main, lines 338-339: finally
CaptureHandler == "L339"

\* KeyboardInterrupt raised inside capture's try block, between or within
\* the calls of a line: control goes to finally (lines 338-339)
CaptureInterrupt ==
    /\ pc \in TryLines
    /\ pc' = CaptureHandler
    /\ sub' = "call"
    /\ trail' = Append(trail, <<"interrupt">>)
    /\ UNCHANGED <<start_preset, end_preset, capture_focus, preset,
                   home_position, current_position, all_positions,
                   skipped_presets, saved, socket, pipe, attempt, position,
                   ev, sentLog, misread, codecVars, viscaVars, mdVars, resVars>>

\* KeyboardInterrupt raised inside restore's try block: control goes to
\* finally (lines 226-227). The interrupt is followed in the script's second
\* run, whose start does not depend on how the first run ended.
RestoreInterrupt ==
    /\ pc \in RestoreTryLines
    /\ run = 2
    /\ pc' = "R227"
    /\ sub' = "call"
    /\ wire' = Wired(<<"interrupt">>)
    /\ UNCHANGED <<socket, pipe, ev, captureOnly, codecVars, viscaVars, mdVars,
                   preset_data, idx, restored_count, skipped_count, run, wire1,
                   call>>

\* a run of either script that Ctrl+C may interrupt: the capture runs over
\* the one preset 89, and the restore runs; a step is taken while one can be
InitInterrupt ==
    (Init /\ start_preset = 89 /\ end_preset = 89) \/ InitRestore
NextInterrupt == NextRuns \/ CaptureInterrupt \/ RestoreInterrupt
SpecInterrupt ==
    InitInterrupt /\ [][NextInterrupt]_vars /\ WF_vars(NextInterrupt)

\* =================================================================
\* using-VISCA.py: the controller, its timer thread, and a caller
\* =================================================================
\* self.visca_commands: Pan Left and Stop Pan/Tilt
visca_commands ==
    <<<<129, 1, 6, 1, 8, 8, 1, 3, 255>>, <<129, 1, 6, 1, 8, 8, 3, 3, 255>>>>

Goto(t, line) == upc' = [upc EXCEPT ![t] = line]

\* Where a thread goes on when its send_command call returns: the timer
\* thread to line 136 of send_next_command, a caller out of
\* send_single_command.
AfterSendCommand(t) == IF t = "timer" THEN "snc_incr" ELSE "idle"

\* Where an exception that send_command does not catch takes a thread: it
\* ends the timer thread, and leaves send_single_command for its caller.
AfterUncaught(t) == IF t = "timer" THEN "died" ELSE "raised"

\* the timer thread is a daemon thread: it ends when the main thread has left
Alive(t) == t = "timer" => upc["main"] # "exit"

\* send_command, lines 72-74: if not self.socket: return False
ScTest(t) ==
    /\ upc[t] = "sc_test" /\ Alive(t)
    /\ Goto(t, IF vsocket = "None" THEN AfterSendCommand(t) ELSE "sc_send")
    /\ uret' = IF vsocket = "None" THEN [uret EXCEPT ![t] = "False"] ELSE uret
    /\ UNCHANGED <<vsocket, running, command_index, timer_thread, ucommand,
                   pending, capVars, codecVars, resVars, mdVars>>

\* send_command, line 82: self.socket.send(command_bytes). AttributeError when
\* self.socket has become None (not caught by except socket.error); a socket
\* error when the socket is not connected, is closed or the link fails.
ScSend(t) ==
    /\ upc[t] = "sc_send" /\ Alive(t)
    /\ \/ /\ vsocket = "None"
          /\ Goto(t, AfterUncaught(t))
          /\ uret' = [uret EXCEPT ![t] = "raised"]
          /\ UNCHANGED pending
       \/ /\ vsocket \in {"unconnected", "closed", "connected"}
          /\ Goto(t, AfterSendCommand(t))
          /\ uret' = [uret EXCEPT ![t] = "False"]
          /\ UNCHANGED pending
       \/ /\ vsocket = "connected"
          /\ Goto(t, "sc_recv")
          /\ pending' = pending \cup {t}
          /\ UNCHANGED uret
    /\ UNCHANGED <<vsocket, running, command_index, timer_thread, ucommand,
                   capVars, codecVars, resVars, mdVars>>

\* send_command, lines 85-95: response = self.socket.recv(16), then return
\* True, or False on a socket error (a timeout, a closed socket);
\* AttributeError when self.socket has become None
ScRecv(t) ==
    /\ upc[t] = "sc_recv" /\ Alive(t)
    /\ \/ /\ vsocket = "None"
          /\ Goto(t, AfterUncaught(t))
          /\ uret' = [uret EXCEPT ![t] = "raised"]
       \/ /\ vsocket = "connected"
          /\ Goto(t, AfterSendCommand(t))
          /\ uret' = [uret EXCEPT ![t] = "True"]
       \/ /\ vsocket # "None"
          /\ Goto(t, AfterSendCommand(t))
          /\ uret' = [uret EXCEPT ![t] = "False"]
    /\ pending' = pending \ {t}
    /\ UNCHANGED <<vsocket, running, command_index, timer_thread, ucommand,
                   capVars, codecVars, resVars, mdVars>>

\* command_timer, line 140: while self.running
CommandTimerWhile ==
    /\ upc["timer"] = "t_while" /\ Alive("timer")
    /\ Goto("timer", IF running THEN "t_if" ELSE "ended")
    /\ UNCHANGED <<vsocket, running, command_index, timer_thread, ucommand, uret,
                   pending, capVars, codecVars, resVars, mdVars>>

\* command_timer, line 141: if self.socket
CommandTimerIf ==
    /\ upc["timer"] = "t_if" /\ Alive("timer")
    /\ Goto("timer", IF vsocket # "None" THEN "snc" ELSE "t_sleep")
    /\ UNCHANGED <<vsocket, running, command_index, timer_thread, ucommand, uret,
                   pending, capVars, codecVars, resVars, mdVars>>

\* send_next_command, lines 123-133: command = visca_commands[command_index]
\* and the call of send_command
SendNextCommand ==
    /\ upc["timer"] = "snc" /\ Alive("timer")
    /\ ucommand' = [ucommand EXCEPT !["timer"] = command_index]
    /\ uret' = [uret EXCEPT !["timer"] = "none"]
    /\ Goto("timer", "sc_test")
    /\ UNCHANGED <<vsocket, running, command_index, timer_thread, pending,
                   capVars, codecVars, resVars, mdVars>>

\* line 136 made to advance the index only after a send that succeeded
SendNextIncrOnSuccess ==
    /\ upc["timer"] = "snc_incr" /\ Alive("timer")
    /\ command_index' = IF uret["timer"] = "True"
                         THEN (command_index + 1) % Len(visca_commands)
                         ELSE command_index
    /\ Goto("timer", "t_sleep")
    /\ UNCHANGED <<vsocket, running, timer_thread, ucommand, uret, pending,
                   capVars, codecVars, resVars, mdVars>>

\* send_next_command, line 136
SendNextIncr ==
    /\ upc["timer"] = "snc_incr" /\ Alive("timer")
    /\ command_index' = (command_index + 1) % Len(visca_commands)
    /\ Goto("timer", "t_sleep")
    /\ UNCHANGED <<vsocket, running, timer_thread, ucommand, uret, pending,
                   capVars, codecVars, resVars, mdVars>>

\* command_timer, line 143: time.sleep(5)
CommandTimerSleep ==
    /\ upc["timer"] = "t_sleep" /\ Alive("timer")
    /\ Goto("timer", "t_while")
    /\ UNCHANGED <<vsocket, running, command_index, timer_thread, ucommand, uret,
                   pending, capVars, codecVars, resVars, mdVars>>

\* send_single_command(index), lines 163-174, called by another thread
IndexSamples == {-1, 0, 1, 2}
SendSingleCommand ==
    /\ upc["caller"] \in {"idle", "raised"}
    /\ \E index \in IndexSamples :
        /\ ucommand' = [ucommand EXCEPT !["caller"] = index]
        /\ Goto("caller", IF 0 <= index /\ index < Len(visca_commands)
                          THEN "sc_test" ELSE "idle")
    /\ uret' = [uret EXCEPT !["caller"] = "none"]
    /\ UNCHANGED <<vsocket, running, command_index, timer_thread, pending,
                   capVars, codecVars, resVars, mdVars>>

\* start(), line 147, and connect(), lines 51-61: a failed connect leaves the
\* socket object it created in self.socket
ViscaConnect ==
    /\ upc["main"] = "start"
    /\ \E ok \in BOOLEAN :
        /\ vsocket' = IF ok THEN "connected" ELSE "unconnected"
        /\ Goto("main", IF ok THEN "start_run" ELSE "start_failed")
    /\ UNCHANGED <<running, command_index, timer_thread, ucommand, uret, pending,
                   capVars, codecVars, resVars, mdVars>>

\* start(), line 148
StartRun ==
    /\ upc["main"] = "start_run"
    /\ running' = TRUE
    /\ Goto("main", "start_thread")
    /\ UNCHANGED <<vsocket, command_index, timer_thread, ucommand, uret, pending,
                   capVars, codecVars, resVars, mdVars>>

\* start(), lines 149-152: the timer thread is created and started
StartThread ==
    /\ upc["main"] = "start_thread"
    /\ timer_thread' = "started"
    /\ upc' = [upc EXCEPT !["main"] = "loop", !["timer"] = "t_while"]
    /\ UNCHANGED <<vsocket, running, command_index, ucommand, uret, pending,
                   capVars, codecVars, resVars, mdVars>>

\* main, lines 205-207: start() returned False
MainFailed ==
    /\ upc["main"] = "start_failed"
    /\ Goto("main", "exit")
    /\ UNCHANGED <<vsocket, running, command_index, timer_thread, ucommand, uret,
                   pending, capVars, codecVars, resVars, mdVars>>

\* signal_handler, lines 176-179: Ctrl+C in the main thread, at start() or in
\* the loop of lines 201-202, calls stop()
SignalHandler ==
    /\ upc["main"] \in {"start", "start_run", "start_thread", "loop"}
    /\ Goto("main", "stop")
    /\ UNCHANGED <<vsocket, running, command_index, timer_thread, ucommand, uret,
                   pending, capVars, codecVars, resVars, mdVars>>

\* stop(), line 157
Stop ==
    /\ upc["main"] = "stop"
    /\ running' = FALSE
    /\ Goto("main", "stop_join")
    /\ UNCHANGED <<vsocket, command_index, timer_thread, ucommand, uret, pending,
                   capVars, codecVars, resVars, mdVars>>

\* stop(), lines 158-159: join(timeout=1) returns when the timer thread has
\* ended or after a second, whatever the timer thread is doing
StopJoin ==
    /\ upc["main"] = "stop_join"
    /\ Goto("main", "disconnect")
    /\ UNCHANGED <<vsocket, running, command_index, timer_thread, ucommand, uret,
                   pending, capVars, codecVars, resVars, mdVars>>

\* disconnect(), line 65: if self.socket
ViscaDisconnectTest ==
    /\ upc["main"] = "disconnect"
    /\ Goto("main", IF vsocket # "None" THEN "disc_close" ELSE "stopped")
    /\ UNCHANGED <<vsocket, running, command_index, timer_thread, ucommand, uret,
                   pending, capVars, codecVars, resVars, mdVars>>

\* disconnect(), line 66: self.socket.close()
ViscaDisconnectClose ==
    /\ upc["main"] = "disc_close"
    /\ vsocket' = "closed"
    /\ Goto("main", "disc_none")
    /\ UNCHANGED <<running, command_index, timer_thread, ucommand, uret, pending,
                   capVars, codecVars, resVars, mdVars>>

\* disconnect(), line 67: self.socket = None
ViscaDisconnectNone ==
    /\ upc["main"] = "disc_none"
    /\ vsocket' = "None"
    /\ Goto("main", "stopped")
    /\ UNCHANGED <<running, command_index, timer_thread, ucommand, uret, pending,
                   capVars, codecVars, resVars, mdVars>>

\* signal_handler, line 180: sys.exit(0)
ViscaExit ==
    /\ upc["main"] = "stopped"
    /\ Goto("main", "exit")
    /\ UNCHANGED <<vsocket, running, command_index, timer_thread, ucommand, uret,
                   pending, capVars, codecVars, resVars, mdVars>>

\* __init__, lines 28-34, with main about to call start()
InitVisca ==
    /\ MotionIdle
    /\ CaptureOff
    /\ CodecIdle
    /\ RestoreIdle
    /\ pc = "off"
    /\ sub = "none"
    /\ socket = "None"
    /\ pipe = <<>>
    /\ ev = <<"none", "none">>
    /\ vsocket = "None"
    /\ running = FALSE
    /\ command_index = 0
    /\ timer_thread = "None"
    /\ upc = [t \in Threads |->
                IF t = "main" THEN "start"
                ELSE IF t = "timer" THEN "unstarted" ELSE "idle"]
    /\ ucommand = [t \in Threads |-> -1]
    /\ uret = [t \in Threads |-> "none"]
    /\ pending = {}

NextVisca ==
    \/ \E t \in {"timer", "caller"} : ScTest(t)
    \/ \E t \in {"timer", "caller"} : ScSend(t)
    \/ \E t \in {"timer", "caller"} : ScRecv(t)
    \/ CommandTimerWhile
    \/ CommandTimerIf
    \/ SendNextCommand
    \/ SendNextIncr
    \/ CommandTimerSleep
    \/ SendSingleCommand
    \/ ViscaConnect
    \/ StartRun
    \/ StartThread
    \/ MainFailed
    \/ SignalHandler
    \/ Stop
    \/ StopJoin
    \/ ViscaDisconnectTest
    \/ ViscaDisconnectClose
    \/ ViscaDisconnectNone
    \/ ViscaExit

SpecVisca == InitVisca /\ [][NextVisca]_vars

\* =================================================================
\* using-HTTP.py: the controller, its timer thread, and a caller
\* =================================================================
\* self.cgi_commands: the ptzctrl.cgi requests left, ptzstop, right
cgi_commands == <<"left&12&10", "ptzstop&0&0", "right&12&10">>

\* Where a thread goes on when the HTTP send_command returns: the timer thread
\* to line 145 of send_next_command, a caller out of send_single_command.
HttpAfterSendCommand(t) == IF t = "timer" THEN "h_incr" ELSE "h_idle"

\* send_command, lines 97-128: the request, answered 200 (True), answered
\* otherwise or failed with a RequestException (False)
HttpSendCommand(t) ==
    /\ upc[t] = "h_send" /\ Alive(t)
    /\ \E ok \in BOOLEAN :
        uret' = [uret EXCEPT ![t] = IF ok THEN "True" ELSE "False"]
    /\ Goto(t, HttpAfterSendCommand(t))
    /\ UNCHANGED <<vsocket, running, command_index, timer_thread, ucommand,
                   pending, capVars, codecVars, resVars, mdVars>>

\* command_timer, line 149: while self.running
HttpCommandTimerWhile ==
    /\ upc["timer"] = "h_while" /\ Alive("timer")
    /\ Goto("timer", IF running THEN "h_if" ELSE "h_ended")
    /\ UNCHANGED <<vsocket, running, command_index, timer_thread, ucommand,
                   uret, pending, capVars, codecVars, resVars, mdVars>>

\* command_timer, lines 150-151: if self.running
HttpCommandTimerIf ==
    /\ upc["timer"] = "h_if" /\ Alive("timer")
    /\ Goto("timer", IF running THEN "h_snc" ELSE "h_sleep")
    /\ UNCHANGED <<vsocket, running, command_index, timer_thread, ucommand,
                   uret, pending, capVars, codecVars, resVars, mdVars>>

\* send_next_command, lines 132-142: command = cgi_commands[command_index] and
\* the call of send_command
HttpSendNextCommand ==
    /\ upc["timer"] = "h_snc" /\ Alive("timer")
    /\ ucommand' = [ucommand EXCEPT !["timer"] = command_index]
    /\ uret' = [uret EXCEPT !["timer"] = "none"]
    /\ Goto("timer", "h_send")
    /\ UNCHANGED <<vsocket, running, command_index, timer_thread, pending,
                   capVars, codecVars, resVars, mdVars>>

\* send_next_command, line 145
HttpSendNextIncr ==
    /\ upc["timer"] = "h_incr" /\ Alive("timer")
    /\ command_index' = (command_index + 1) % Len(cgi_commands)
    /\ Goto("timer", "h_sleep")
    /\ UNCHANGED <<vsocket, running, timer_thread, ucommand, uret, pending,
                   capVars, codecVars, resVars, mdVars>>

\* command_timer, line 152: time.sleep(5)
HttpCommandTimerSleep ==
    /\ upc["timer"] = "h_sleep" /\ Alive("timer")
    /\ Goto("timer", "h_while")
    /\ UNCHANGED <<vsocket, running, command_index, timer_thread, ucommand,
                   uret, pending, capVars, codecVars, resVars, mdVars>>

\* send_single_command(index), lines 171-182, called by another thread
HttpIndexSamples == {-1, 0, 2, 3}
HttpSendSingleCommand ==
    /\ upc["caller"] = "h_idle"
    /\ \E index \in HttpIndexSamples :
        /\ ucommand' = [ucommand EXCEPT !["caller"] = index]
        /\ Goto("caller", IF 0 <= index /\ index < Len(cgi_commands)
                          THEN "h_send" ELSE "h_idle")
    /\ uret' = [uret EXCEPT !["caller"] = "none"]
    /\ UNCHANGED <<vsocket, running, command_index, timer_thread, pending,
                   capVars, codecVars, resVars, mdVars>>

\* main, lines 210 and 217-219, with start(), lines 154-162, and
\* test_connection(), lines 76-95: no other thread reads what start() writes
\* before the timer thread is started
HttpStart ==
    /\ upc["main"] = "h_start"
    /\ \E ok \in BOOLEAN :
        IF ok
        THEN /\ running' = TRUE
             /\ timer_thread' = "started"
             /\ upc' = [upc EXCEPT !["main"] = "h_loop", !["timer"] = "h_while"]
        ELSE /\ Goto("main", "exit")
             /\ UNCHANGED <<running, timer_thread>>
    /\ UNCHANGED <<vsocket, command_index, ucommand, uret, pending,
                   capVars, codecVars, resVars, mdVars>>

\* signal_handler, lines 184-187, and stop(), line 166: Ctrl+C in the main
\* thread, at start() or in the loop of lines 213-214
HttpStop ==
    /\ upc["main"] \in {"h_start", "h_loop"}
    /\ running' = FALSE
    /\ Goto("main", "h_stop_join")
    /\ UNCHANGED <<vsocket, command_index, timer_thread, ucommand, uret,
                   pending, capVars, codecVars, resVars, mdVars>>

\* stop(), lines 167-169: join(timeout=1) returns when the timer thread has
\* ended or after a second; then signal_handler, line 188: sys.exit(0)
HttpExit ==
    /\ upc["main"] = "h_stop_join"
    /\ Goto("main", "exit")
    /\ UNCHANGED <<vsocket, running, command_index, timer_thread, ucommand,
                   uret, pending, capVars, codecVars, resVars, mdVars>>

\* __init__, lines 32-40, with main about to call start()
InitHttp ==
    /\ MotionIdle
    /\ CaptureOff
    /\ CodecIdle
    /\ RestoreIdle
    /\ pc = "off"
    /\ sub = "none"
    /\ socket = "None"
    /\ pipe = <<>>
    /\ ev = <<"none", "none">>
    /\ vsocket = "None"
    /\ running = FALSE
    /\ command_index = 0
    /\ timer_thread = "None"
    /\ upc = [t \in Threads |->
                IF t = "main" THEN "h_start"
                ELSE IF t = "timer" THEN "unstarted" ELSE "h_idle"]
    /\ ucommand = [t \in Threads |-> -1]
    /\ uret = [t \in Threads |-> "none"]
    /\ pending = {}

NextHttp ==
    \/ \E t \in {"timer", "caller"} : HttpSendCommand(t)
    \/ HttpCommandTimerWhile
    \/ HttpCommandTimerIf
    \/ HttpSendNextCommand
    \/ HttpSendNextIncr
    \/ HttpCommandTimerSleep
    \/ HttpSendSingleCommand
    \/ HttpStart
    \/ HttpStop
    \/ HttpExit

\* either example controller, run from its main
InitTimers == InitVisca \/ InitHttp
NextTimers == NextVisca \/ NextHttp
SpecTimers == InitTimers /\ [][NextTimers]_vars

\* =================================================================
\* Motion Detection/main.py: motion smoothing and face persistence
\* =================================================================
\* Most frames of run_detection's loop that are modelled.
MaxFrames == 32

\* line 177 taken before the test of line 176, so the hold ends a frame early
smooth_motion_detection_short(count, raw_motion_detected) ==
    IF raw_motion_detected
        THEN [count |-> MOTION_HOLD_FRAMES, ret |-> TRUE]
    ELSE IF count - 1 > 0
        THEN [count |-> count - 1, ret |-> TRUE]
    ELSE [count |-> 0, ret |-> FALSE]

\* smooth_motion_detection(raw_motion_detected), lines 170-180: the new
\* motion_frames_count and the value returned
smooth_motion_detection(count, raw_motion_detected) ==
    IF raw_motion_detected
        THEN [count |-> MOTION_HOLD_FRAMES, ret |-> TRUE]
    ELSE IF count > 0
        THEN [count |-> count - 1, ret |-> TRUE]
    ELSE [count |-> count, ret |-> FALSE]

\* the test of line 227 made with > for >=
DetectorDueLate(counter) == counter > FACE_DETECTION_INTERVAL

\* line 227: if self.face_detection_counter >= FACE_DETECTION_INTERVAL
DetectorDue(counter) == counter >= FACE_DETECTION_INTERVAL

\* lines 242-247 without the decrement's guard: the last result is returned
\* whatever the hold count
PersistUnguarded(count, last) ==
    [count |-> IF count > 0 THEN count - 1 ELSE 0, ret |-> last]

\* lines 242-247: the persisted result while the hold count is positive
Persist(count, last) ==
    IF count > 0 THEN [count |-> count - 1, ret |-> last]
    ELSE [count |-> count, ret |-> NoFace]

\* detect_person_with_persistence(frame), lines 224-247, where found is what
\* detect_person returns for the frame if it runs: the new counter, hold
\* count and last result, the value returned, and whether detect_person ran
detect_person_with_persistence(counter, count, last, found) ==
    IF DetectorDue(counter + 1)
    THEN IF found.detected
         THEN [counter |-> 0, count |-> FACE_HOLD_FRAMES, last |-> found,
               ret |-> found, ran |-> TRUE]
         ELSE LET cleared == IF count <= 0 THEN NoFace ELSE last
                  p == Persist(count, cleared)
              IN [counter |-> 0, count |-> p.count, last |-> cleared,
                  ret |-> p.ret, ran |-> TRUE]
    ELSE LET p == Persist(count, last)
         IN [counter |-> counter + 1, count |-> p.count, last |-> last,
             ret |-> p.ret, ran |-> FALSE]

\* what detect_person may return for a frame: no face, or one of two lists
Detections == {NoFace, [detected |-> TRUE, faces |-> 1],
               [detected |-> TRUE, faces |-> 2]}

Capped(n, most) == IF n > most THEN most ELSE n

\* run_detection, lines 278-294: one frame of the loop (a frame that could not
\* be read, lines 280-283, changes nothing)
RunDetectionFrame ==
    /\ frame_count < MaxFrames
    /\ \E raw_motion_detected \in BOOLEAN, found \in Detections :
        LET m == smooth_motion_detection(motion_frames_count,
                                         raw_motion_detected)
            f == detect_person_with_persistence(face_detection_counter,
                    face_frames_count, last_face_result, found)
        IN /\ frame_count' = frame_count + 1
           /\ motion_frames_count' = m.count
           /\ motion_detected' = m.ret
           /\ face_detection_counter' = f.counter
           /\ face_frames_count' = f.count
           /\ last_face_result' = f.last
           /\ person' = f.ret
           /\ ran' = f.ran
           /\ quiet' = IF raw_motion_detected THEN 0
                       ELSE Capped(quiet + 1, MOTION_HOLD_FRAMES + 2)
           /\ since' = IF f.ran /\ found.detected THEN 0
                       ELSE Capped(since + 1, FACE_HOLD_FRAMES + 2)
           /\ stored' = IF f.ran /\ found.detected THEN found.faces ELSE stored
    /\ UNCHANGED <<capVars, codecVars, resVars, viscaVars>>

\* PTZMotionDetector.__init__, with run_detection about to read its first frame
InitMotion ==
    /\ MotionIdle
    /\ CaptureOff
    /\ CodecIdle
    /\ RestoreIdle
    /\ ViscaIdle
    /\ pc = "off"
    /\ sub = "none"
    /\ socket = "None"
    /\ pipe = <<>>
    /\ ev = <<"none", "none">>

NextMotion == RunDetectionFrame

SpecMotion == InitMotion /\ [][NextMotion]_vars

\* =================================================================
\* The claims
\* =================================================================
Fields == {"pan", "tilt", "zoom", "focus"}
FieldwiseEqual(a, b) == \A k \in Fields : a[k] = b[k]
Last(q) == q[Len(q)]
InSeq(x, q) == \E i \in DOMAIN q : q[i] = x
Occupied == {n \in Scanned(start_preset, end_preset) : ~InSeq(n, skipped_presets)}
PanTiltSent == {i \in DOMAIN sentLog : sentLog[i].kind = "pantilt"}
UpperHex == <<"0", "1", "2", "3", "4", "5", "6", "7",
              "8", "9", "A", "B", "C", "D", "E", "F">>

\* C1: during capture a scanned preset is recorded as skipped, and gets no
\* table entry, exactly when the position queried after the existence-probe
\* delay equals the recorded home position in every field; otherwise it gets a
\* table entry. So when every probe equals home the written table is empty and
\* every scanned preset is in the skipped list.
C1_SkippedIffProbeEqualsHome ==
    /\ pc = "L314" =>
          /\ ~FieldwiseEqual(current_position, home_position)
          /\ ~InSeq(preset, skipped_presets)
          /\ PresetKey(preset) \notin TableKeys(all_positions)
    /\ (pc = "L288" /\ preset >= start_preset /\ ~Reserved(preset)) =>
          IF FieldwiseEqual(current_position, home_position)
             THEN /\ Last(skipped_presets) = preset
                  /\ PresetKey(preset) \notin TableKeys(all_positions)
             ELSE /\ ~InSeq(preset, skipped_presets)
                  /\ Last(all_positions)[1] = PresetKey(preset)
    /\ pc = "done" =>
          /\ saved = <<all_positions>>
          /\ \A n \in Scanned(start_preset, end_preset) :
                InSeq(n, skipped_presets)
                    <=> PresetKey(n) \notin TableKeys(all_positions)

\* C1's case: a finished run that skipped one preset and stored the other.
C1_Witness ==
    /\ pc = "done"
    /\ Len(skipped_presets) = 1
    /\ Len(all_positions) = 1
    /\ skipped_presets[1] # preset

\* C2: the position stored for an occupied preset is the one returned by the
\* query made after the full settle wait and the drain (line 318), not the
\* probe's; and the finished table holds exactly one entry per preset whose
\* probe differed from home, keyed for that preset.
C2_StoredIsPostSettlePosition ==
    /\ (pc = "L318" /\ sentLog # <<>>) =>
          sentLog[1].before = <<"settle", "drain">>
    /\ (pc = "L325" /\ sub = "call") =>
          Last(all_positions) = <<PresetKey(preset), position>>
    /\ pc = "done" =>
          /\ Len(all_positions) = Cardinality(Occupied)
          /\ TableKeys(all_positions) = {PresetKey(n) : n \in Occupied}

\* C2's case: an entry was just stored, and the final position differs from
\* the one the probe read.
C2_Witness ==
    /\ pc = "L325" /\ sub = "call"
    /\ position # current_position
    /\ Last(all_positions)[2] = position

\* C3 (as claimed): get_position never decodes, as the answer to an inquiry, a
\* reply that answers an earlier command or an earlier inquiry.
C3_NoStaleReplyDecoded == ~misread

\* C4 (as claimed): every inquiry get_position sends comes right after a drain
\* of the link, with no other send in between.
C4_InquiryRightAfterDrain ==
    \A i \in DOMAIN sentLog : sentLog[i].before[2] = "drain"

\* C5: get_position sends the pan/tilt inquiry at most 3 times per call, sends
\* no further one after the first reply that is an inquiry reply of at least
\* 11 bytes, tries again after every other outcome until the third, and after
\* three failures goes on with pan and tilt unset.
C5_PanTiltRetryBounded ==
    /\ Cardinality(PanTiltSent) <= 3
    /\ \A i \in PanTiltSent :
          sentLog[i].reply = "reply11" => \A j \in PanTiltSent : j <= i
    /\ (pc \in QueryLines /\ sub \in {"zoom", "focus", "return"}) =>
          \/ /\ \E i \in PanTiltSent : sentLog[i].reply = "reply11"
             /\ Has(position, "pan") /\ Has(position, "tilt")
          \/ /\ Cardinality(PanTiltSent) = 3
             /\ \A i \in PanTiltSent : sentLog[i].reply # "reply11"
             /\ ~Has(position, "pan") /\ ~Has(position, "tilt")

\* C5's case: a call returns after three failed pan/tilt attempts.
C5_Witness ==
    /\ pc \in QueryLines /\ sub = "return"
    /\ Cardinality(PanTiltSent) = 3
    /\ ~Has(position, "pan")

\* what is left of a get_position call, at most
GpRank ==
    CASE sub = "call"    -> 10
      [] sub = "pantilt" -> 9 - 2 * attempt
      [] sub = "pause"   -> 8 - 2 * attempt
      [] sub = "zoom"    -> 2
      [] sub = "focus"   -> 1
      [] OTHER           -> 0

GpOrder ==
    LET n == Cardinality(PanTiltSent)
    IN  /\ n <= 3
        /\ \A i \in DOMAIN sentLog : (i <= n) <=> (sentLog[i].kind = "pantilt")
        /\ Len(sentLog) > n => sentLog[n + 1].kind = "zoom"
        /\ Len(sentLog) > n + 1 =>
              /\ capture_focus
              /\ sentLog[n + 2].kind = "focus"
              /\ Len(sentLog) = n + 2
        /\ (pc \in QueryLines /\ sub = "return") =>
              /\ n >= 1
              /\ Len(sentLog) = n + 1 + (IF capture_focus THEN 1 ELSE 0)

\* C6: every get_position call terminates whatever the link returns: each of
\* its steps can be taken and brings the call nearer its return, and it sends
\* 1 to 3 pan/tilt inquiries, then exactly one zoom inquiry, then exactly one
\* focus inquiry if capture_focus is set and none otherwise (2 to 5 in all).
C6_GetPositionTerminates ==
    /\ [](GpOrder /\ GpRank >= 0 /\ (pc \in QueryLines => ENABLED Next))
    /\ [][(pc \in QueryLines /\ sub # "return") => GpRank' < GpRank]_vars

\* C6's case: a call with focus returns after a timeout on all five exchanges.
C6_Witness ==
    /\ pc \in QueryLines /\ sub = "return"
    /\ Len(sentLog) = 5
    /\ \A i \in DOMAIN sentLog : sentLog[i].reply = "other"
    /\ position = EmptyPosition

\* C7 (as claimed): the home position and the probe position compared with it
\* both hold pan and tilt.
C7_ComparedPositionsHavePanTilt ==
    (pc = "L301" /\ sub = "return") =>
        /\ Has(home_position, "pan") /\ Has(home_position, "tilt")
        /\ Has(position, "pan") /\ Has(position, "tilt")

\* C8: for every 16-bit value, the four nibbles the move commands send,
\* recombined as the inquiry decoder recombines them, give the value back.
C8_NibbleRoundTrip ==
    (ctest = "roundtrip" /\ cpc = "done") =>
        /\ cout = cv
        /\ Len(cnib) = 4
        /\ \A i \in 1..4 : cnib[i] \in 0..15

\* C8's case: 0xABCD went through both directions.
C8_Witness ==
    /\ ctest = "roundtrip" /\ cpc = "done"
    /\ cv = 43981
    /\ cnib = <<10, 11, 12, 13>>
    /\ cout = 43981

\* the packed-nibble bytes the decoder under test reads from the reply
NibblePlaces == IF ctest = "pantilt" THEN 2..9 ELSE 2..5

\* C9 (as claimed): a reply with a data byte outside 0..15 in a packed-nibble
\* place is a decode failure: no field is populated from it.
C9_OutOfRangeByteRejected ==
    (ctest \in {"pantilt", "zoom"} /\ cpc = "done") =>
        ((\E i \in NibblePlaces : i < Len(cresp) /\ At(cresp, i) \notin 0..15)
            => cpos = EmptyPosition)

\* C10: a pan/tilt reply of at least 11 bytes with second byte 0x50 and
\* nibbles n0..n7 in bytes 2..9 gives pan the four uppercase hex digits
\* n0 n1 n2 n3 and tilt the digits n4 n5 n6 n7.
C10_PanTiltDecode ==
    (/\ ctest = "pantilt" /\ cpc = "done"
     /\ Len(cresp) >= 11
     /\ At(cresp, 1) = 80
     /\ \A i \in 2..9 : At(cresp, i) \in 0..15) =>
        /\ cpos.pan = [i \in 1..4 |-> UpperHex[At(cresp, i + 1) + 1]]
        /\ cpos.tilt = [i \in 1..4 |-> UpperHex[At(cresp, i + 5) + 1]]

\* C10's case: the reply 90 50 01 02 03 04 05 06 07 08 FF decoded.
C10_Witness ==
    /\ ctest = "pantilt" /\ cpc = "done"
    /\ cresp = <<144, 80, 1, 2, 3, 4, 5, 6, 7, 8, 255>>
    /\ cpos.pan = <<"1", "2", "3", "4">>
    /\ cpos.tilt = <<"5", "6", "7", "8">>

\* ----------------------------------------------------------- restore
\* the link events of the run made for entry i of the table
WireOf(i) == SelectSeq(wire, LAMBDA w : w.i = i)
\* the commands among a sequence of link events
SendsIn(q) == SelectSeq(q, LAMBDA w : w.e[1] = "send")
LacksPanTiltOrZoom(d) == \E k \in {"pan", "tilt", "zoom"} : d[k] = Unset

\* C11: during restore a table entry that lacks pan, tilt or zoom is skipped:
\* no link event (no zoom move, pan/tilt move or preset-save) is made for it,
\* the skipped counter grows by exactly one and the loop goes on to the next
\* entry; an entry that lacks at most focus is not skipped at that check and
\* goes on to the zoom move.
C11_IncompleteEntrySkipped ==
    /\ [](\A i \in 1..idx :
             (pc \in {"R182", "R192", "R198", "R201", "R208", "R209", "R212",
                      "R219", "R227", "done"}
              /\ LacksPanTiltOrZoom(preset_data[i][2])) => WireOf(i) = <<>>)
    /\ [][pc = "R192" =>
             IF LacksPanTiltOrZoom(preset_data[idx][2])
                THEN /\ skipped_count' = skipped_count + 1
                     /\ restored_count' = restored_count
                     /\ wire' = wire
                     /\ idx' = idx
                     /\ pc' = "R182"
                ELSE /\ skipped_count' = skipped_count
                     /\ pc' = "R198"]_vars

\* an entry lacking tilt was skipped, and the entry after it restored
C11_Witness ==
    /\ pc = "R182" /\ idx = 2
    /\ preset_data[1][2].tilt = Unset /\ preset_data[1][2].pan # Unset
    /\ preset_data[2][2].focus = Unset
    /\ skipped_count = 1 /\ restored_count = 1
    /\ WireOf(1) = <<>> /\ Len(SendsIn(WireOf(2))) = 3

\* the link events restore is to make for a whole entry, in order
EntryEvents(entry) ==
    <<<<"send", SetZoomCommand(entry[2].zoom)>>, <<"sleep0.2">>, <<"drain">>,
      <<"send", SetPanTiltCommand(entry[2].pan, entry[2].tilt)>>,
      <<"sleep0.2">>, <<"drain">>,
      <<"settle">>, <<"drain">>,
      <<"send", SetPresetCommand(PresetNumber(entry[1]))>>,
      <<"sleep0.2">>, <<"drain">>>>
Untagged(q) == [k \in DOMAIN q |-> q[k].e]
IsPrefix(p, q) == Len(p) <= Len(q) /\ \A k \in DOMAIN p : p[k] = q[k]
\* entry i of the table has been dealt with
EntryDone(i) == i < idx \/ (i = idx /\ pc \in {"R182", "R219", "R227", "done"})
Restorable(entry) ==
    /\ ~LacksPanTiltOrZoom(entry[2])
    /\ 0 <= PresetNumber(entry[1]) /\ PresetNumber(entry[1]) <= 254

\* C12: during restore, for every entry that is not skipped the link sees, in
\* this order: the zoom absolute move, the pan/tilt absolute move, the full
\* settle wait, a drain, the preset-save command of the entry's preset number
\* (each command followed by its own short sleep and drain). Entries are
\* processed in the table's order: no event of a later entry precedes an event
\* of an earlier one, so none precedes the earlier entry's preset-save.
C12_RestoreCommandOrder ==
    (run > 0 /\ pc # "exit1") =>
        /\ \A j, k \in DOMAIN wire : j < k => wire[j].i <= wire[k].i
        /\ \A k \in DOMAIN wire : wire[k].i \in 1..idx
        /\ \A i \in 1..idx :
              ~LacksPanTiltOrZoom(preset_data[i][2]) =>
                  /\ IsPrefix(Untagged(WireOf(i)), EntryEvents(preset_data[i]))
                  /\ (EntryDone(i) /\ Restorable(preset_data[i])) =>
                        Untagged(WireOf(i)) = EntryEvents(preset_data[i])

\* a run that restored two entries, preset 254 and then preset 0
C12_Witness ==
    /\ pc = "done" /\ run = 1 /\ idx = 2 /\ restored_count = 2
    /\ PresetNumber(preset_data[1][1]) = 254
    /\ PresetNumber(preset_data[2][1]) = 0
    /\ Len(wire) = 22
    /\ wire[9].e = <<"send", <<129, 1, 4, 63, 1, 254, 255>>>>
    /\ wire[12].e = <<"send", <<129, 1, 4, 71, 4, 0, 0, 0, 255>>>>
    /\ wire[15].e = <<"send", <<129, 1, 6, 2, 24, 24, 1, 2, 3, 4, 5, 6, 7, 8, 255>>>>

\* the run before this one went through its loop (it did not leave by sys.exit)
FirstRunCompleted == wire1 = <<>> \/ Last(wire1).e # <<"exit1">>

\* C13: restore is deterministic and keeps nothing between runs: a second run
\* over the same table sends what the first run sent, command for command and
\* wait for wait, whatever the link replied, lost or delayed in either run.
C13_RestoreRepeatable ==
    (run = 2 /\ FirstRunCompleted /\ pc # "exit1") =>
        /\ IsPrefix(wire, wire1)
        /\ pc = "done" => wire = wire1

\* two completed runs over a table with an entry to restore
C13_Witness ==
    /\ run = 2 /\ pc = "done" /\ FirstRunCompleted
    /\ Len(SendsIn(wire1)) = 5 /\ wire = wire1

\* C15: during restore a table entry whose preset number is outside 0..254 is
\* rejected before any I/O for it: no command (no zoom move, no pan/tilt move)
\* is sent for that entry.
C15_OutOfRangeEntryNoIO ==
    run > 0 =>
        \A i \in 1..idx :
            ~(0 <= PresetNumber(preset_data[i][1])
              /\ PresetNumber(preset_data[i][1]) <= 254)
                => SendsIn(WireOf(i)) = <<>>

\* ------------------------------------------------- the controller's methods
Count(x, q) == Cardinality({k \in DOMAIN q : q[k] = x})
SendingOps == {"send_command", "go_home", "recall_preset", "set_max_preset_speed",
               "set_zoom_position", "set_pan_tilt_position", "set_preset"}

\* C14: set_preset(n) sends a command only when 0 <= n <= 254; the command is
\* then 81 01 04 3F 01 n FF (byte index 5 equals n, the last byte is 0xFF) and
\* the value the call returns is True. For n outside 0..254 (255, -1) it
\* returns False at once and does nothing on the link.
C14_SetPresetRange ==
    call.op = "set_preset" =>
        IF 0 <= call.arg /\ call.arg <= 254
           THEN /\ call.cmd = <<129, 1, 4, 63, 1, call.arg, 255>>
                /\ At(call.cmd, 5) = call.arg
                /\ Last(call.cmd) = 255
                /\ call.ret \in {"pending", "True", "raise"}
                /\ call.ret = "raise" => socket = "None"
                /\ (sub = "return" /\ call.pre = "connected") =>
                      (call.calls[1] = "send" /\ call.ret = "True")
           ELSE /\ call.ret = "False"
                /\ call.calls = <<>>
                /\ call.cmd = <<>>
                /\ sub = "return"

\* set_preset(254) on a connected link: sent, and True returned
C14_Witness ==
    /\ call.op = "set_preset" /\ call.arg = 254 /\ sub = "return"
    /\ call.ret = "True"
    /\ call.calls = <<"send", "recv", "sleep0.2", "drain">>

\* C16: no link or motion method raises an exception when the link fails or
\* when it is called on a controller that is not connected.
C16_NoMethodRaises == call.ret # "raise"

\* C17: a socket error during send or receive makes the link Disconnected:
\* the method that met it returns with the controller holding no socket, and
\* until connect is invoked again send_command (alone or inside a method)
\* makes no send.
C17_SocketErrorDisconnects ==
    /\ (call.op \in SendingOps /\ call.erred /\ sub = "return") => socket = "None"
    /\ (call.op \in SendingOps /\ call.was) => Count("send", call.calls) = 0

\* C18: disconnect is idempotent: it closes the socket when the controller
\* holds one, and on a controller that holds none (never connected, or already
\* disconnected) it closes nothing and raises nothing; either way the
\* controller holds no socket afterwards.
C18_DisconnectIdempotent ==
    call.op = "disconnect" =>
        /\ socket = "None"
        /\ call.ret = "None"
        /\ call.calls = IF call.pre = "None" THEN <<>> ELSE <<"close">>

\* disconnect called right after disconnect
C18_Witness ==
    /\ call.op = "disconnect" /\ call.after = "disconnect"
    /\ call.pre = "None" /\ call.calls = <<>> /\ socket = "None"

\* C19: a call of send_command on a connected link makes exactly one send and
\* then exactly one recv, and no further send or recv of its own; a timeout
\* or socket error ends it with None after that single attempt. (On a socket
\* whose send raises, the one send is all it does.) The methods that call
\* send_command make that one call.
C19_OneSendOneRecv ==
    call.op \in SendingOps =>
        /\ Count("send", call.calls) <= 1 /\ Count("recv", call.calls) <= 1
        /\ call.op = "send_command" =>
              /\ call.pre = "connected" => call.calls = <<"send", "recv">>
              /\ call.pre = "None" => (call.calls = <<>> /\ call.ret = "None")
              /\ call.pre \in {"unconnected", "broken"} =>
                    (call.calls = <<"send">> /\ call.ret = "None")

\* send_command on a connected link whose recv timed out
C19_Witness ==
    /\ call.op = "send_command" /\ call.pre = "connected"
    /\ call.ret = "None" /\ call.calls = <<"send", "recv">>

\* C20: if connect fails the run aborts without a command sent: with the
\* socket left unconnected by a failed connect, the script is at sys.exit(1),
\* nothing has been done on the link in this run (capture: no speed, home,
\* recall or inquiry command; restore: no move or preset-save command, no
\* method called), and capture has written no preset table.
C20_ConnectFailureAborts ==
    socket = "unconnected" =>
        /\ pc = "exit1"
        /\ ev = <<"none", "none">>
        /\ sentLog = <<>>
        /\ saved = <<>>
        /\ all_positions = <<>>
        /\ wire = <<>>
        /\ call = NoCall

\* a capture run over presets 42..42 whose connect failed
C20_Witness ==
    /\ run = 0 /\ pc = "exit1" /\ socket = "unconnected"
    /\ start_preset = 42 /\ end_preset = 42 /\ saved = <<>>

MotionOps == {"go_home", "recall_preset", "set_max_preset_speed",
              "set_zoom_position", "set_pan_tilt_position", "set_preset"}
\* the settle delay the claim gives each motion command
SettleClass(op) ==
    IF op \in {"go_home", "recall_preset"} THEN "sleep0.5" ELSE "sleep0.2"
WithoutRecv(q) == SelectSeq(q, LAMBDA x : x # "recv")

\* C21: every motion command (go_home, recall_preset, set_max_preset_speed,
\* set_zoom_position, set_pan_tilt_position, set_preset with a valid number)
\* called on a controller that holds a socket does, in this order, one send,
\* one settle sleep and one drain, and has returned only once the drain is
\* done; the sleep is 0.5 s for recall and home and 0.2 s for the others.
C21_MotionSendSettleDrain ==
    (call.op \in MotionOps /\ call.pre # "None" /\ call.ret # "False") =>
        /\ call.sleep = SettleClass(call.op)
        /\ IsPrefix(WithoutRecv(call.calls), <<"send", SettleClass(call.op), "drain">>)
        /\ sub = "send"  <=> WithoutRecv(call.calls) = <<>>
        /\ sub = "sleep" <=> WithoutRecv(call.calls) = <<"send">>
        /\ sub = "drain" <=> WithoutRecv(call.calls) = <<"send", SettleClass(call.op)>>
        /\ sub = "return" <=>
              WithoutRecv(call.calls) = <<"send", SettleClass(call.op), "drain">>
        /\ call.ret # "pending" <=> sub = "return"

\* go_home returned on a connected link
C21_Witness ==
    /\ call.op = "go_home" /\ sub = "return" /\ call.ret = "None"
    /\ call.calls = <<"send", "recv", "sleep0.5", "drain">>

\* ------------------------------------------------ the order of capture's steps
\* C22: in capture and restore every settle wait made by main (the home
\* settle, the existence-probe delay, the full settle after an occupied probe,
\* the settle after returning home, the restore settle) is followed on the
\* link by a drain: nothing is sent between the wait and the drain.
C22_DrainAfterEverySettle ==
    /\ ev[1] \in {"settle", "probe"} => ev[2] = "drain"
    /\ ev[2] \in {"settle", "probe"} =>
          pc \in {"L276", "L298", "L315", "L327", "R209"}

\* capture about to query the final position of an occupied preset: the full
\* settle, then the drain
C22_Witness ==
    /\ pc = "L318" /\ sub = "call" /\ ev = <<"settle", "drain">>
    /\ Last(trail) = <<"drain">>

Opening == <<<<"speed">>, <<"home">>, <<"settle">>, <<"drain">>, <<"query">>>>

\* C23: capture begins with set max preset speed, go home, the full settle
\* wait, a drain and one position query, in this order and before any recall;
\* the result of that query is recorded as home, and home is assigned at no
\* other step.
C23_CaptureOpening ==
    /\ [](/\ pc \in {"L270", "L271", "L275", "L276", "L278"} =>
                /\ IsPrefix(trail, Opening)
                /\ home_position = EmptyPosition
          /\ (pc = "L278" /\ sub = "return") => trail = Opening)
    /\ [][/\ home_position' # home_position =>
                (pc = "L278" /\ sub = "return" /\ home_position' = position)
          /\ pc' = "L278" => pc \in {"L276", "L278"}
          /\ (pc = "L278" /\ pc' # "L278") => pc' = "L288"]_vars

\* the home query has returned a whole position, about to be recorded
C23_Witness ==
    /\ pc = "L278" /\ sub = "return" /\ trail = Opening
    /\ position.pan # Unset /\ position.zoom # Unset
    /\ home_position = EmptyPosition

\* what main does for a recalled preset judged empty, and for one judged occupied
EmptySteps(n) ==
    <<<<"recall", n>>, <<"probe">>, <<"drain">>, <<"query">>, <<"empty">>>>
OccupiedSteps(n) ==
    <<<<"recall", n>>, <<"probe">>, <<"drain">>, <<"query">>, <<"occupied">>,
      <<"settle">>, <<"drain">>, <<"query">>, <<"store">>, <<"home">>, <<"settle">>>>
\* q is made of the steps of recalls judged empty, one after the other
OnlyEmptyRecalls(q) ==
    /\ Len(q) % 5 = 0
    /\ \A g \in 0..((Len(q) \div 5) - 1) :
          SubSeq(q, 5 * g + 1, 5 * g + 5) = EmptySteps(q[5 * g + 1][2])

\* C24: after a slot is found occupied capture waits the full settle, drains,
\* queries, stores, sends go-home and waits the full settle again (and drains)
\* before the next recall; after a slot is found empty the next recall comes
\* with no full settle and no go-home. So at every recall, what main has done
\* since the camera last came home is only recalls judged empty.
C24_RecallFromBaseline ==
    /\ (pc = "L291" /\ sub = "call") => OnlyEmptyRecalls(trail)
    /\ pc = "L327" =>
          /\ Len(trail) >= 11
          /\ OnlyEmptyRecalls(SubSeq(trail, 1, Len(trail) - 11))
          /\ SubSeq(trail, Len(trail) - 10, Len(trail)) = OccupiedSteps(preset)
    /\ (pc = "L288" /\ trail # <<>>) => Last(trail) = <<"empty">>

\* preset 100 about to be recalled right after preset 89 was judged empty
C24_Witness ==
    /\ pc = "L291" /\ sub = "call" /\ preset = 100
    /\ trail = EmptySteps(89)

\* C25: capture never sends a recall for a preset in 90..99 and never records
\* such a preset in the table or in the skipped list.
C25_ReservedNeverRecalled ==
    /\ pc \in {"L291", "L297", "L298", "L301", "L314", "L315", "L318", "L325",
               "L326", "L327"} => ~(90 <= preset /\ preset <= 99)
    /\ \A k \in DOMAIN trail :
          trail[k][1] = "recall" => ~(90 <= trail[k][2] /\ trail[k][2] <= 99)
    /\ \A n \in 90..99 :
          /\ PresetKey(n) \notin TableKeys(all_positions)
          /\ ~InSeq(n, skipped_presets)

\* a run over 89..100 recalling preset 100 after it passed over 90..99
C25_Witness ==
    /\ start_preset = 89 /\ end_preset = 100
    /\ pc = "L291" /\ sub = "sleep" /\ preset = 100
    /\ Last(trail) = <<"recall", 100>>

\* ------------------------------------------------ what restore puts on the wire
\* the commands of the run's link events
SentCommands == {wire[k].e[2] : k \in {j \in DOMAIN wire : wire[j].e[1] = "send"}}
IsPanTiltMove(cmd) == Len(cmd) = 15 /\ At(cmd, 2) = 6 /\ At(cmd, 3) = 2
IsZoomMove(cmd) == Len(cmd) = 9 /\ At(cmd, 2) = 4 /\ At(cmd, 3) = 71
IsPresetSave(cmd) == Len(cmd) = 7 /\ At(cmd, 2) = 4 /\ At(cmd, 3) = 63 /\ At(cmd, 4) = 1

\* C26: every pan/tilt absolute move the client sends carries a pan speed byte
\* in 1..24 and a tilt speed byte in 1..20.
C26_PanTiltSpeedInRange ==
    \A cmd \in SentCommands :
        IsPanTiltMove(cmd) =>
            /\ 1 <= At(cmd, 4) /\ At(cmd, 4) <= 24
            /\ 1 <= At(cmd, 5) /\ At(cmd, 5) <= 20

\* C27: restore never sends an inquiry: every command it sends is of the
\* command class (81 01) and is a zoom absolute move, a pan/tilt absolute
\* move or a preset save.
C27_RestoreSendsNoInquiry ==
    run > 0 =>
        \A cmd \in SentCommands :
            /\ At(cmd, 0) = 129 /\ At(cmd, 1) = 1 /\ Last(cmd) = 255
            /\ cmd \notin {PanTiltInquiry, ZoomInquiry, FocusInquiry}
            /\ IsZoomMove(cmd) \/ IsPanTiltMove(cmd) \/ IsPresetSave(cmd)

\* a completed restore of one entry: its three commands sent
C27_Witness ==
    /\ run = 1 /\ pc = "done" /\ restored_count = 1 /\ Len(preset_data) = 1
    /\ Cardinality(SentCommands) = 3
    /\ \E cmd \in SentCommands : IsPresetSave(cmd)

\* ------------------------------------------------- the classes of a response
ErrorTexts == {"Syntax error", "Command buffer full", "Command cancelled",
               "No socket", "Command not executable", "Unknown error"}
\* the error text the claim gives an error code
ErrorTextOf(code) ==
    IF code = 2 THEN "Syntax error"
    ELSE IF code = 3 THEN "Command buffer full"
    ELSE IF code = 4 THEN "Command cancelled"
    ELSE IF code = 5 THEN "No socket"
    ELSE IF code = 65 THEN "Command not executable"
    ELSE "Unknown error"
Interpreted == ctest = "interpret" /\ cpc = "done"

\* C28: a response beginning 0x90 (of three bytes or more) is classified by
\* its second byte: 0x4y is ACK, 0x5y is Completion, 0x6y is Error with the
\* third byte as error code (02 Syntax error, 03 Command buffer full, 04
\* Command cancelled, 05 No socket, 41 Command not executable, any other an
\* unknown error).
C28_ClassifiedBySecondByte ==
    (Interpreted /\ Len(cresp) >= 3 /\ cresp[1] = 144) =>
        /\ cresp[2] \div 16 = 4 => cclass = "Command acknowledged"
        /\ cresp[2] \div 16 = 5 => cclass = "Command completed"
        /\ cresp[2] \div 16 = 6 => cclass = ErrorTextOf(cresp[3])

\* C29: an empty response or one shorter than 2 bytes is malformed (nothing is
\* made of it), and every response of 2 or more bytes beginning 0x90 gets one
\* of the classes ACK, Completion, Error, Inquiry-Reply; in get_position an
\* empty or shorter-than-2 reply fills no position field.
C29_MalformedDistinct ==
    /\ (Interpreted /\ Len(cresp) < 2) => cclass = "nothing"
    /\ (Interpreted /\ Len(cresp) >= 2 /\ cresp[1] = 144) =>
          cclass \in {"Command acknowledged", "Command completed"} \cup ErrorTexts
    /\ (ctest \in {"pantilt", "zoom"} /\ cpc = "done" /\ Len(cresp) < 2) =>
          cpos = EmptyPosition


\* C30: in the using-VISCA controller no two commands are in flight at once on
\* the link: whatever the interleaving of the timer thread with a thread
\* calling send_single_command, no command is sent between another command's
\* send and the read of its reply.
C30_NoTwoCommandsInFlight ==
    vsocket = "connected" => Cardinality(pending) <= 1


\* ------------------------------------------------- the timer's command cycle
\* the command list of the controller that is running
CommandCount == IF upc["caller"] \in {"h_idle", "h_send"}
                THEN Len(cgi_commands) ELSE Len(visca_commands)
\* the timer thread is at a line of command_timer outside send_next_command
TimerBetweenSends ==
    upc["timer"] \in {"t_while", "t_if", "t_sleep", "snc", "ended",
                      "h_while", "h_if", "h_sleep", "h_snc", "h_ended"}
\* the timer thread takes the command for its next send
TimerTakesCommand ==
    /\ upc["timer"] \in {"snc", "h_snc"}
    /\ upc'["timer"] \in {"sc_test", "h_send"}
\* the timer thread's send_command returned, True or False
TimerSendReturned == upc["timer"] \in {"snc_incr", "h_incr"}

C32_MotionHeld ==
    /\ motion_frames_count \in 0..MOTION_HOLD_FRAMES
    /\ frame_count > 0 => (motion_detected <=> quiet <= MOTION_HOLD_FRAMES)
\* the last held frame, and the first frame after the hold
C32_Witness ==
    /\ quiet = MOTION_HOLD_FRAMES + 1
    /\ ~motion_detected
    /\ motion_frames_count = 0

\* C33: detect_person runs on every FACE_DETECTION_INTERVAL-th call of
\* detect_person_with_persistence and on no other call, and
\* face_detection_counter is within 0..FACE_DETECTION_INTERVAL-1 after every
\* call.
C33_DetectorEveryNth ==
    /\ face_detection_counter \in 0..(FACE_DETECTION_INTERVAL - 1)
    /\ frame_count > 0 => (ran <=> frame_count % FACE_DETECTION_INTERVAL = 0)
    /\ face_detection_counter = frame_count % FACE_DETECTION_INTERVAL
C33_Witness ==
    /\ frame_count = 3 * FACE_DETECTION_INTERVAL
    /\ ran
    /\ person.detected

\* C34: after detect_person finds a face, detect_person_with_persistence
\* reports a face with the stored rectangles on that call and on each of the
\* next FACE_HOLD_FRAMES calls (or until a newer detection replaces them), and
\* reports (False, []) once the hold has run out; face_frames_count is within
\* 0..FACE_HOLD_FRAMES, and while it is positive last_face_result is a
\* positive detection.
C34_FacePersists ==
    /\ face_frames_count \in 0..FACE_HOLD_FRAMES
    /\ face_frames_count > 0 => last_face_result.detected
    /\ frame_count > 0 =>
        /\ since <= FACE_HOLD_FRAMES =>
              person = [detected |-> TRUE, faces |-> stored]
        /\ since > FACE_HOLD_FRAMES => person = NoFace
        /\ face_frames_count =
              IF since <= FACE_HOLD_FRAMES THEN FACE_HOLD_FRAMES - since ELSE 0
\* the call after the hold of an earlier detection has run out
C34_Witness ==
    /\ since = FACE_HOLD_FRAMES + 1
    /\ stored = 2
    /\ person = NoFace
    /\ last_face_result.detected
    /\ face_frames_count = 0


\* ------------------------------------------------------- counts and ranges
\* the preset numbers of the table's keys
KeyPresets(table) ==
    {n \in start_preset..end_preset : PresetKey(n) \in TableKeys(table)}
SeqSet(q) == {q[k] : k \in DOMAIN q}
NoRepeats(q) == \A i, j \in DOMAIN q : q[i] = q[j] => i = j
\* the capture run has written its file and left through finally
CaptureCompleted == pc = "done" /\ saved # <<>>

\* C35: at the end of a completed capture run the table keys and the skipped
\* list are disjoint and together hold exactly the presets of start..end
\* outside 90..99, each once; so occupied + skipped is the number of such
\* presets.
C35_TableAndSkippedPartition ==
    CaptureCompleted =>
        /\ KeyPresets(all_positions) \cap SeqSet(skipped_presets) = {}
        /\ KeyPresets(all_positions) \cup SeqSet(skipped_presets)
              = Scanned(start_preset, end_preset)
        /\ TableKeys(all_positions)
              = {PresetKey(n) : n \in KeyPresets(all_positions)}
        /\ NoRepeats(skipped_presets)
        /\ NoRepeats([i \in DOMAIN all_positions |-> all_positions[i][1]])
        /\ Len(all_positions) + Len(skipped_presets)
              = Cardinality(Scanned(start_preset, end_preset))
        /\ saved[1] = all_positions
\* a completed run over a range crossing 90..99 with one preset stored and one
\* skipped
C35_Witness ==
    /\ CaptureCompleted
    /\ start_preset = 89 /\ end_preset = 100
    /\ Len(all_positions) = 1
    /\ Len(skipped_presets) = 1

\* C37: every preset capture recalls lies in 1..89, 100..149 or 152..254, for
\* every start/end pair that passes the validation of lines 239-257.
C37_RecallsOnlyAssignable ==
    \A k \in DOMAIN trail :
        trail[k][1] = "recall" => ValidPreset(trail[k][2])


\* the restore run has reported its counts and left through finally
RestoreCompleted == run >= 1 /\ pc = "done"
PresetSavesSent ==
    Cardinality({k \in DOMAIN wire :
                    wire[k].e[1] = "send" /\ IsPresetSave(wire[k].e[2])})

\* C36: at the end of a completed restore run restored_count + skipped_count
\* is the number of entries of the table, and restored_count is the number of
\* preset-save commands that were sent.
C36_RestoreCounts ==
    RestoreCompleted =>
        /\ restored_count + skipped_count = Len(preset_data)
        /\ restored_count = PresetSavesSent


\* the run in progress was interrupted from the keyboard
Interrupted ==
    \/ run = 0 /\ trail # <<>> /\ trail[Len(trail)] = <<"interrupt">>
    \/ run >= 1 /\ wire # <<>> /\ wire[Len(wire)].e = <<"interrupt">>

\* C38: every capture or restore run that connected ends with the link
\* disconnected (the socket closed and self.socket None), whether its loop
\* completed or an error or a keyboard interrupt inside the try block ended
\* it: a run that is over holds no socket it connected, and a connected
\* socket is always disconnected in the end.
C38_RunEndsDisconnected ==
    /\ [](pc = "done" => socket = "None")
    /\ [](pc = "exit1" => socket # "connected")
    /\ (socket = "connected") ~> (pc = "done" /\ socket = "None")
\* a capture run interrupted after it stored a preset, and now disconnected
C38_Witness ==
    /\ pc = "done" /\ socket = "None" /\ Interrupted
    /\ run = 0 /\ Len(all_positions) = 1 /\ saved = <<>>
\* a restore run interrupted between its two entries, and now disconnected
C38_WitnessRestore ==
    /\ pc = "done" /\ socket = "None" /\ Interrupted
    /\ run = 2 /\ idx = 1 /\ restored_count = 1


\* C39: after connect() has returned False the controller is disconnected: its
\* socket handle is unset, and a send_command that follows sends no bytes
\* (makes no call on a socket) and returns None.
C39_FailedConnectLeavesNoSocket ==
    /\ (call.op = "connect" /\ call.ret = "False") => socket = "None"
    /\ (call.op = "send_command" /\ call.after = "connect"
          /\ call.pre # "connected") =>
            (call.pre = "None" /\ call.calls = <<>> /\ call.ret = "None")

\* ------------------------------------------------ stop() and the timer thread
\* the timer thread takes a step of send_command's send or recv
TimerUsesSocket ==
    /\ upc["timer"] \in {"sc_send", "sc_recv"}
    /\ upc'["timer"] # upc["timer"]
\* stop() has returned
StopReturned == upc["main"] \in {"stopped", "exit"}

\* C40: whatever the interleaving of stop() with the timer thread, the timer
\* thread makes no send or recv on a socket that disconnect has closed or set
\* to None and ends by no uncaught exception, and sends no command after
\* stop() has returned.
C40_StopWaitsForTimer ==
    /\ [](upc["timer"] # "died")
    /\ [][TimerUsesSocket => vsocket \notin {"closed", "None"}]_vars
    /\ [][TimerUsesSocket => ~StopReturned]_vars

====
